---- MODULE Spec2Model ----
(***************************************************************************)
(* A model of rv's content-addressed cache (crates/rv-cache) and of the    *)
(* gem download pipeline and the installer of `rv ci`                      *)
(* (crates/rv/src/commands/ci.rs).                                         *)
(*                                                                         *)
(* The file system is a function from paths to nodes.  A path is the       *)
(* sequence of its components below the cache root, so <<>> is the cache   *)
(* root itself.  A node is a directory or a file with its bytes.           *)
(***************************************************************************)
EXTENDS Integers, Sequences, FiniteSets, TLC

\* ------------------------------------------------------------------ bounds

\* Largest size, in bytes, of a file that is present before the program runs.
MaxBytes == 2

\* Number of GEM sections of the lockfile.
NumSources == 2

\* Number of specs of the first GEM section; every other section has one.
MaxSpecs == 3

\* Largest value tried for --max-concurrent-requests.
MaxLimit == 2

\* Number of times `rv ci` is run on the same lockfile and cache.
MaxRuns == 2

\* ------------------------------------------------------------------ state

VARIABLES
    fs,        \* the file system below (and including) the cache root
    pre,       \* the file system as it was when the last operation started
    last,      \* the last cache operation: its name, argument and result
    limit,     \* max_concurrent_requests of the run
    run,       \* which run of `rv ci` this is
    clean,     \* every earlier run succeeded, the first from an empty cache
    dl,        \* the download of the run: tasks, streams, collectors, result
    handles,   \* the Cache values of the process: alive or not, what they hold
    ephemeral, \* the cache was made by Cache::temp rather than Cache::from_path
    pure,      \* the last call of a function without effects: arguments, results
    inst       \* the installation: the bundle path's file system, the last unpack

fetchVars == <<limit, run, clean, dl>>

handleVars == <<handles, ephemeral>>

vars == <<fs, pre, last, limit, run, clean, dl, handles, ephemeral, pure, inst>>

\* ------------------------------------------------------------------ paths

Root == <<>>

Marker == ".gitignore"

Dir == [kind |-> "dir", data |-> <<>>]

File(bytes) == [kind |-> "file", data |-> bytes]

\* Utf8Path::join for a relative single component.
Join(p, name) == Append(p, name)

\* Utf8Path::parent
Parent(p) == SubSeq(p, 1, Len(p) - 1)

IsPrefix(p, q) == Len(p) <= Len(q) /\ SubSeq(q, 1, Len(p)) = p

Exists(f, p) == p \in DOMAIN f

IsDir(f, p) == Exists(f, p) /\ f[p].kind = "dir"

\* The entries fs::read_dir(p) yields.
ReadDir(f, p) == {q \in DOMAIN f : Len(q) = Len(p) + 1 /\ IsPrefix(p, q)}

\* The file system without the paths of gone.
Without(f, gone) == [q \in (DOMAIN f) \ gone |-> f[q]]

\* The file system with path p holding node.
With(f, p, node) == [q \in (DOMAIN f) \cup {p} |-> IF q = p THEN node ELSE f[q]]

\* ------------------------------------------------------------------ Removal

\* Removal::new
Removal(dirs, bytes) == [dirs |-> dirs, bytes |-> bytes]

\* Removal::default
RemovalDefault == Removal(0, 0)

\* Addition that keeps the bytes of the left operand.
RemovalAddLeft(a, b) == Removal(a.dirs + b.dirs, a.bytes)

\* impl Add for Removal
RemovalAdd(a, b) == Removal(a.dirs + b.dirs, a.bytes + b.bytes)

\* Removal::is_empty
RemovalIsEmpty(r) == r.dirs = 0 /\ r.bytes = 0

\* The walk of one removal: the file system it leaves, what it tallied, the
\* number of on_clean notifications it gave and the paths it removed, in the
\* order of their removal.
Walk(f, removal, cleaned, order) ==
    [fs |-> f, removal |-> removal, cleaned |-> cleaned, order |-> order]

RECURSIVE RemovalRmRf(_, _)
RECURSIVE RemoveChildren(_, _)

\* The children of directory p, removed one after the other, tallies summed.
RemoveChildren(f, p) ==
    IF ReadDir(f, p) = {}
    THEN Walk(f, RemovalDefault, 0, <<>>)
    ELSE LET child == CHOOSE q \in ReadDir(f, p) : TRUE
             one == RemovalRmRf(f, child)
             rest == RemoveChildren(one.fs, p)
         IN  Walk(rest.fs, RemovalAdd(one.removal, rest.removal),
                  one.cleaned + rest.cleaned, one.order \o rest.order)

\* RemovalRmRf taking a missing path for an empty directory.
RemovalRmRfMissingAsDir(f, p) ==
    IF ~Exists(f, p)
    THEN Walk(f, Removal(1, 0), 1, <<p>>)
    ELSE IF f[p].kind = "file"
    THEN Walk(Without(f, {p}), Removal(0, Len(f[p].data)), 1, <<p>>)
    ELSE LET inner == RemoveChildren(f, p)
         IN  Walk(Without(inner.fs, {p}),
                  RemovalAdd(inner.removal, Removal(1, 0)),
                  inner.cleaned + 1, Append(inner.order, p))

\* RemovalRmRf that removes a directory without counting it.
RemovalRmRfDirUncounted(f, p) ==
    IF ~Exists(f, p)
    THEN Walk(f, RemovalDefault, 0, <<>>)
    ELSE IF f[p].kind = "file"
    THEN Walk(Without(f, {p}), Removal(0, Len(f[p].data)), 1, <<p>>)
    ELSE LET inner == RemoveChildren(f, p)
         IN  Walk(Without(inner.fs, {p}), inner.removal, inner.cleaned + 1,
                  Append(inner.order, p))

\* RemovalRmRf that counts a file as one entry instead of its bytes.
RemovalRmRfFileAsEntry(f, p) ==
    IF ~Exists(f, p)
    THEN Walk(f, RemovalDefault, 0, <<>>)
    ELSE IF f[p].kind = "file"
    THEN Walk(Without(f, {p}), Removal(1, 0), 1, <<p>>)
    ELSE LET inner == RemoveChildren(f, p)
         IN  Walk(Without(inner.fs, {p}),
                  RemovalAdd(inner.removal, Removal(1, 0)),
                  inner.cleaned + 1, Append(inner.order, p))

\* RemovalRmRf that removes a directory together with what is in it, in one
\* step, before it walks the children to tally them.
RemovalRmRfPreOrder(f, p) ==
    IF ~Exists(f, p)
    THEN Walk(f, RemovalDefault, 0, <<>>)
    ELSE IF f[p].kind = "file"
    THEN Walk(Without(f, {p}), Removal(0, Len(f[p].data)), 1, <<p>>)
    ELSE LET inner == RemoveChildren(f, p)
         IN  Walk(Without(inner.fs, {p}),
                  RemovalAdd(inner.removal, Removal(1, 0)),
                  inner.cleaned + 1, <<p>> \o inner.order)

\* Removal of the file or directory tree at p: a missing path is an empty
\* removal, a file counts its bytes, a directory is removed after its children
\* and counts one directory more than they did.
RemovalRmRf(f, p) ==
    IF ~Exists(f, p)
    THEN Walk(f, RemovalDefault, 0, <<>>)
    ELSE IF f[p].kind = "file"
    THEN Walk(Without(f, {p}), Removal(0, Len(f[p].data)), 1, <<p>>)
    ELSE LET inner == RemoveChildren(f, p)
         IN  Walk(Without(inner.fs, {p}),
                  RemovalAdd(inner.removal, Removal(1, 0)),
                  inner.cleaned + 1, Append(inner.order, p))

\* The file system when the walk of the removal of p has failed at its
\* removal number done + 1: the paths removed before that are gone.
Interrupted(f, p, done) ==
    LET order == RemovalRmRf(f, p).order
    IN  Without(f, {order[i] : i \in 1..done})

\* What a cache operation returns: Ok(removal) or Err, and the file system
\* it leaves.  completed tells whether the reporter's on_complete was called.
Outcome(ok, f, removal, cleaned, completed) ==
    [ok |-> ok, fs |-> f, removal |-> removal, cleaned |-> cleaned,
     completed |-> completed]

\* Remover::rm_rf: the walk, then on_complete when there is a reporter.
RemoverRmRf(f, p, reporter) ==
    LET w == RemovalRmRf(f, p)
    IN  Outcome(TRUE, w.fs, w.removal, IF reporter THEN w.cleaned ELSE 0, reporter)

\* removal::rm_rf: a Remover without a reporter.
rm_rf(f, p) == RemoverRmRf(f, p, FALSE)

\* ------------------------------------------------------------------ Cache

\* CacheBucket::iter
CacheBucket == {"Ruby", "Gem"}

\* CacheBucket::to_str
to_str(bucket) == IF bucket = "Ruby" THEN "ruby-v0" ELSE "gem-v0"

\* Cache::bucket
bucket(cache_bucket) == Join(Root, to_str(cache_bucket))

Star == <<42>>

\* fs::create_dir_all: the directory and its missing ancestors are created;
\* an Err when a file is in the way.
RECURSIVE create_dir_all(_, _)
create_dir_all(f, p) ==
    IF IsDir(f, p) THEN [ok |-> TRUE, fs |-> f]
    ELSE IF Exists(f, p) THEN [ok |-> FALSE, fs |-> f]
    ELSE IF p = Root THEN [ok |-> TRUE, fs |-> With(f, p, Dir)]
    ELSE LET above == create_dir_all(f, Parent(p))
         IN  IF above.ok
             THEN [ok |-> TRUE, fs |-> With(above.fs, p, Dir)]
             ELSE [ok |-> FALSE, fs |-> f]

\* OpenOptions::new().write(true).create_new(true).open(p)
open_create_new(f, p) ==
    IF Exists(f, p) THEN [kind |-> "AlreadyExists", fs |-> f]
    ELSE [kind |-> "Ok", fs |-> With(f, p, File(<<>>))]

\* init opening the marker with create(true).truncate(true).
initTruncating(f) ==
    LET made == create_dir_all(f, Root)
        gitignore == Join(Root, Marker)
    IN  IF ~made.ok \/ IsDir(made.fs, gitignore)
        THEN Outcome(FALSE, f, RemovalDefault, 0, FALSE)
        ELSE Outcome(TRUE, With(made.fs, gitignore, File(Star)), RemovalDefault, 0, FALSE)

\* Cache::init: create the root if it is missing, create the marker and
\* write "*" to it; an AlreadyExists from the open is swallowed.
init(f) ==
    LET made == create_dir_all(f, Root)
        gitignore == Join(Root, Marker)
        opened == open_create_new(made.fs, gitignore)
    IN  IF ~made.ok
        THEN Outcome(FALSE, f, RemovalDefault, 0, FALSE)
        ELSE IF opened.kind = "Ok"
        THEN Outcome(TRUE, With(opened.fs, gitignore, File(Star)), RemovalDefault, 0, FALSE)
        ELSE Outcome(TRUE, made.fs, RemovalDefault, 0, FALSE)

\* clear emptying the root directory but keeping it.
clearContents(f) ==
    LET inner == RemoveChildren(f, Root)
    IN  Outcome(TRUE, inner.fs, inner.removal, inner.cleaned, TRUE)

\* Cache::clear
\* Cache::clear that makes the Remover without the reporter.
clearUnreported(f) == RemoverRmRf(f, Root, FALSE)

clear(f) == RemoverRmRf(f, Root, TRUE)

\* PruneEntry comparing the entry's name with the first bucket only.
PruneEntryOneBucket(acc, entry) ==
    LET entry_name == entry[Len(entry)]
        removed == rm_rf(acc.fs, entry)
        summed == [fs |-> removed.fs,
                   summary |-> RemovalAdd(acc.summary, removed.removal)]
    IN  IF entry_name = Marker
        THEN acc
        ELSE IF IsDir(acc.fs, entry)
        THEN IF entry_name # to_str("Ruby")
             THEN summed
             ELSE acc
        ELSE summed

\* The body of the loop of Cache::prune for one directory entry.
PruneEntry(acc, entry) ==
    LET entry_name == entry[Len(entry)]
        removed == rm_rf(acc.fs, entry)
        summed == [fs |-> removed.fs,
                   summary |-> RemovalAdd(acc.summary, removed.removal)]
    IN  IF entry_name = Marker
        THEN acc
        ELSE IF IsDir(acc.fs, entry)
        THEN IF \A b \in CacheBucket : entry_name # to_str(b)
             THEN summed
             ELSE acc
        ELSE summed

RECURSIVE PruneLoop(_, _)
PruneLoop(acc, entries) ==
    IF entries = {}
    THEN acc
    ELSE LET entry == CHOOSE e \in entries : TRUE
         IN  PruneLoop(PruneEntry(acc, entry), entries \ {entry})

\* An I/O error in the loop of prune: the entry at which it happens and the
\* number of removals rm_rf has done on that entry by then (0 when it is the
\* listing, the metadata or the first removal that fails).
Failure(entry, done) == [entry |-> entry, done |-> done]

NoFailure == Failure(Root, 0)

\* The errors of the listing that can end the loop when it has got through
\* visited: the listing or the metadata of the next entry fails (which entry
\* that is makes no difference to what prune does, one stands for all).
EntryFailures(f, visited) ==
    IF visited = ReadDir(f, Root)
    THEN {NoFailure}
    ELSE {Failure(CHOOSE e \in ReadDir(f, Root) \ visited : TRUE, 0)}

\* The errors of rm_rf that can end the loop when it has got through visited:
\* rm_rf fails on an entry that is to be removed, before its first removal or
\* after some of its removals.
RemovalFailures(f, visited) ==
    LET acc == PruneLoop([fs |-> f, summary |-> RemovalDefault], visited)
        left == ReadDir(f, Root) \ visited
    IN  UNION {{Failure(e, k) : k \in 0..(Len(RemovalRmRf(acc.fs, e).order) - 1)} :
               e \in {x \in left : PruneEntry(acc, x).fs # acc.fs}}

\* prune that passes over an entry that fails and goes on with the others.
pruneKeepGoing(f, visited, failure) ==
    IF ~IsDir(f, Root)
    THEN Outcome(FALSE, f, RemovalDefault, 0, FALSE)
    ELSE LET acc == PruneLoop([fs |-> f, summary |-> RemovalDefault], visited)
             rest == PruneLoop([fs |-> Interrupted(acc.fs, failure.entry, failure.done),
                                summary |-> acc.summary],
                               ReadDir(f, Root) \ (visited \cup {failure.entry}))
         IN  IF visited = ReadDir(f, Root)
             THEN Outcome(TRUE, acc.fs, acc.summary, 0, FALSE)
             ELSE Outcome(FALSE, rest.fs, RemovalDefault, 0, FALSE)

\* prune that returns Ok after the first entry it removes.
pruneOneEntry(f, visited, failure) ==
    IF ~IsDir(f, Root)
    THEN Outcome(FALSE, f, RemovalDefault, 0, FALSE)
    ELSE LET start == [fs |-> f, summary |-> RemovalDefault]
             removable == {e \in ReadDir(f, Root) : PruneEntry(start, e).fs # f}
             acc == IF removable = {}
                    THEN start
                    ELSE PruneEntry(start, CHOOSE e \in removable : TRUE)
         IN  IF visited = ReadDir(f, Root)
             THEN Outcome(TRUE, acc.fs, acc.summary, 0, FALSE)
             ELSE Outcome(FALSE, Interrupted(f, failure.entry, failure.done),
                          RemovalDefault, 0, FALSE)

\* Cache::prune.  visited is the set of entries of the root the loop gets
\* through before an I/O error ends it; without an error it is all of them
\* and the summary is returned.  An error (read_dir of the root, the listing
\* or the metadata of an entry, a removal inside rm_rf) is returned at once,
\* without the summary.
prune(f, visited, failure) ==
    IF ~IsDir(f, Root)
    THEN Outcome(FALSE, f, RemovalDefault, 0, FALSE)
    ELSE LET acc == PruneLoop([fs |-> f, summary |-> RemovalDefault], visited)
         IN  IF visited = ReadDir(f, Root)
             THEN Outcome(TRUE, acc.fs, acc.summary, 0, FALSE)
             ELSE Outcome(FALSE, Interrupted(acc.fs, failure.entry, failure.done),
                          RemovalDefault, 0, FALSE)

\* ------------------------------------------------------------------ initial file systems

Fill(n) == [i \in 1..n |-> 120]

FileDatas == {Star, Fill(0), Fill(MaxBytes)}

NoShape == [q \in {} |-> Dir]

FileShape(bytes) == [q \in {<<>>} |-> File(bytes)]

TreeNode(q) ==
    IF q = <<"file1.txt">> THEN File(Fill(1))
    ELSE IF q = <<"subdir", "file2.txt">> THEN File(Fill(MaxBytes))
    ELSE Dir

DirShape(below) == [q \in {<<>>} \cup below |-> TreeNode(q)]

DirShapes ==
    {DirShape({}),
     DirShape({<<"file1.txt">>, <<"subdir">>, <<"subdir", "file2.txt">>})}

TopNames == {Marker, "ruby-v0", "gem-v0", "ruby-v-0", "random.txt"}

\* What lies under a top-level name at the start: nothing, a file or a
\* directory tree.  The two names that are no bucket names stand for any
\* such name, one tried as a directory and one as a file.
ShapesOf(n) ==
    IF n = Marker
    THEN {NoShape} \cup {FileShape(d) : d \in FileDatas} \cup DirShapes
    ELSE IF n = "ruby-v-0"
    THEN {NoShape} \cup DirShapes
    ELSE IF n = "random.txt"
    THEN {NoShape, FileShape(Fill(0)), FileShape(Fill(MaxBytes))}
    ELSE {NoShape, FileShape(Fill(MaxBytes))} \cup DirShapes

Shapes == UNION {ShapesOf(n) : n \in TopNames}

Choices == {choice \in [TopNames -> Shapes] : \A n \in TopNames : choice[n] \in ShapesOf(n)}

\* The cache root holding, under each top-level name, the chosen shape.
Populate(choice) ==
    [p \in {Root} \cup UNION {{<<n>> \o q : q \in DOMAIN choice[n]} : n \in TopNames} |->
        IF p = Root THEN Dir ELSE choice[p[1]][Tail(p)]]

NoFs == [q \in {} |-> Dir]

\* The root path taken by a plain file.
RootFile == [q \in {Root} |-> File(Fill(MaxBytes))]

\* What a CleanReporter is told by an operation, in order: on_clean for each
\* object the walk removes, then on_complete when the walk has returned.
ReporterCalls(out) ==
    [i \in 1..out.cleaned |-> "on_clean"]
        \o (IF out.completed THEN <<"on_complete">> ELSE <<>>)

NoOp == [op |-> "none", path |-> Root, ok |-> TRUE, removal |-> RemovalDefault,
         cleaned |-> 0, completed |-> FALSE, visited |-> {}, calls |-> <<>>,
         failed |-> NoFailure, prior |-> "other"]

Done(name, p, out, visited) ==
    [op |-> name, path |-> p, ok |-> out.ok, removal |-> out.removal,
     cleaned |-> out.cleaned, completed |-> out.completed, visited |-> visited,
     calls |-> ReporterCalls(out), failed |-> NoFailure, prior |-> "other"]

\* What a prune follows: a prune that returned Ok and removed something
\* ("pruned"), one that returned Ok and removed nothing ("kept"), or anything
\* else.
Prior ==
    IF last.op = "prune" /\ last.ok
    THEN IF pre # fs THEN "pruned" ELSE "kept"
    ELSE "other"

\* ------------------------------------------------------------------ Cache values

\* Number of Cache values the process can hold over its life.
MaxHandles == 2

Handles == 1..MaxHandles

\* A Cache value: whether it is alive, whether its temp_dir field is Some (a
\* share of the Arc<TempDir>), and the form of its root path.
Handle(state, arc, root) == [state |-> state, arc |-> arc, root |-> root]

NoHandle == Handle("free", FALSE, "given")

\* Cache::from_path: the root as given, temp_dir None.
from_path == Handle("live", FALSE, "given")

\* Cache::temp: the root is the path of a new temporary directory, temp_dir
\* holds the only share of it.
temp == Handle("live", TRUE, "given")

\* The value Cache::init returns without the temp_dir of the one it was given.
initHandleNoTemp(handle) == [handle EXCEPT !.root = "canonical", !.arc = FALSE]

\* The value Cache::init returns with the root as it was given.
initHandleAsGiven(handle) == handle

\* The value Cache::init returns: Self { root: canonicalized, ..self }.
initHandle(handle) == [handle EXCEPT !.root = "canonical"]

Live(hs) == {h \in Handles : hs[h].state = "live"}

\* The strong count of the Arc<TempDir>.
ArcCount(hs) == Cardinality({h \in Live(hs) : hs[h].arc})

\* Dropping the TempDir removes the directory and everything below it.
TempDirDrop(f) == NoFs

\* The file system once the Cache values hs have become hs2: the TempDir is
\* dropped with the last share of it.
Released(f, hs, hs2) ==
    IF ArcCount(hs) > 0 /\ ArcCount(hs2) = 0 THEN TempDirDrop(f) ELSE f

\* ------------------------------------------------------------------ the lockfile

\* buffered(10) of download_gems
OuterLimit == 10

\* The first two sections name the same remote, so that a gem listed in both
\* has one download URL and one cache entry.
RemoteOf(s) == IF s <= 2 THEN 1 ELSE s - 1

\* GemfileDotLock.gem: per GEM section its remote and its specs.  The first
\* section lists the gems 1..MaxSpecs; every other section lists the gem that
\* comes second in the first one, so that under a limit of one the two futures
\* for that gem start at different times.
Lockfile ==
    [s \in 1..NumSources |->
        [remote |-> RemoteOf(s),
         specs |-> IF s = 1
                   THEN [i \in 1..MaxSpecs |-> [name |-> i, version |-> 1]]
                   ELSE <<[name |-> 2, version |-> 1]>>]]

\* A lockfile with one GEM section more than download_gems polls at once.
\* Each section lists the same gem; the last one names a remote of its own.
WideLockfile ==
    [s \in 1..(OuterLimit + 1) |->
        [remote |-> IF s <= OuterLimit THEN 1 ELSE 2,
         specs |-> <<[name |-> 1, version |-> 1]>>]]

\* Remotes that are no URL (Url::parse fails), and remotes that are a URL
\* that cannot be a base, such as mailto:gems (Url::join fails).
Malformed == {0}

CannotBeABase == {9}

\* A lockfile with a section of good gems, then a section whose remote
\* cannot be a base, then one whose remote is no URL.
UrlLockfile ==
    <<[remote |-> 1, specs |-> [i \in 1..MaxSpecs |-> [name |-> i, version |-> 1]]],
      [remote |-> 9, specs |-> <<[name |-> 1, version |-> 1]>>],
      [remote |-> 0, specs |-> <<[name |-> 2, version |-> 1]>>]>>

SourcesOf(lockfile) == 1..Len(lockfile)

TasksOf(lockfile) ==
    UNION {{<<s, i>> : i \in 1..Len(lockfile[s].specs)} : s \in SourcesOf(lockfile)}

\* The GEM sections of the lockfile of the run.
Sources == SourcesOf(dl.lockfile)

SpecCount(s) == Len(dl.lockfile[s].specs)

\* One download_gem future: the i-th spec of section s.
Tasks == TasksOf(dl.lockfile)

SpecOf(t) == dl.lockfile[t[1]].specs[t[2]]

\* url_for_spec: the remote joined with gems/<name>-<version>.gem, as a number
\* with one field per part.
url_for_spec(remote, spec) == remote * 10000 + spec.name * 100 + spec.version

\* The variants of Error that download_gem returns.
NoError == [kind |-> "none"]

BadRemote(remote, err) == [kind |-> "BadRemote", remote |-> remote, err |-> err]

UrlError(err) == [kind |-> "UrlError", err |-> err]

Reqwest == [kind |-> "Reqwest"]

\* Url::parse(remote) and Url::join(path): "ok" or the url::ParseError.
UrlParse(remote) == IF remote \in Malformed THEN "RelativeUrlWithoutBase" ELSE "ok"

UrlJoin(remote, spec) ==
    IF remote \in CannotBeABase THEN "RelativeUrlWithCannotBeABaseBase" ELSE "ok"

\* The Err of url_for_spec: a remote that does not parse is a BadRemote
\* holding the remote, a join that fails is the ParseError converted by `?`.
url_for_spec_err(remote, spec) ==
    IF UrlParse(remote) # "ok" THEN BadRemote(remote, UrlParse(remote))
    ELSE IF UrlJoin(remote, spec) # "ok" THEN UrlError(UrlJoin(remote, spec))
    ELSE NoError

UrlsOf(lockfile) ==
    {url_for_spec(lockfile[t[1]].remote, lockfile[t[1]].specs[t[2]]) :
        t \in TasksOf(lockfile)}

UrlOf(t) == url_for_spec(dl.lockfile[t[1]].remote, SpecOf(t))

Urls == UrlsOf(dl.lockfile)

\* rv_cache::cache_digest
cache_digest(url) == (url * 31 + 17) % 65536

\* The cache path download_gem computes for a URL.
cache_path(url) ==
    Join(Join(bucket("Gem"), "gems"), ToString(cache_digest(url)) \o ".gem")

\* The bytes the server sends for a URL.
Payload(url) == <<url % 256>>

\* ------------------------------------------------------------------ the download

Downloaded(contents, spec) == [contents |-> contents, spec |-> spec]

NoTask == <<0, 0>>

\* The download before its first poll.  requests counts the GETs sent per
\* URL, sent the GETs sent per future, order lists the futures in the order in
\* which they completed, wrote holds the futures that returned Ok after
\* writing their cache entry, found the URLs whose entries were in the
\* cache when the run started, and errors the Err each future returned.
FreshOf(lockfile) ==
    [lockfile |-> lockfile,
     pc |-> [t \in TasksOf(lockfile) |-> "queued"],
     got |-> [t \in TasksOf(lockfile) |-> <<>>],
     started |-> [s \in SourcesOf(lockfile) |-> 0],
     yielded |-> [s \in SourcesOf(lockfile) |-> 0],
     items |-> [s \in SourcesOf(lockfile) |-> <<>>],
     src |-> [s \in SourcesOf(lockfile) |-> "queued"],
     raised |-> [s \in SourcesOf(lockfile) |-> NoTask],
     ostarted |-> 0,
     oyielded |-> 0,
     collected |-> <<>>,
     result |-> [state |-> "idle", error |-> NoTask, downloaded |-> <<>>],
     requests |-> [u \in UrlsOf(lockfile) |-> 0],
     sent |-> [t \in TasksOf(lockfile) |-> 0],
     wrote |-> {},
     found |-> {},
     errors |-> [t \in TasksOf(lockfile) |-> NoError],
     order |-> <<>>]

Fresh == FreshOf(Lockfile)

\* The URLs of the lockfile whose cache entries exist in f.
Found(lockfile, f) == {u \in UrlsOf(lockfile) : Exists(f, cache_path(u))}

\* order keeps the completions of the first two sections.
Logged(order, t) == IF t[1] <= 2 THEN Append(order, t) ELSE order

\* The futures of section s that are in the FuturesOrdered of its buffered
\* stream: running ones and finished ones whose output waits for its turn.
InQueue(d, s) == {<<s, i>> : i \in (d.yielded[s] + 1)..d.started[s]}

\* StartTask without the test of the cache path.
StartTaskAlwaysGet(d, t, f) ==
    [d EXCEPT !.pc[t] = "get", !.requests[UrlOf(t)] = @ + 1, !.sent[t] = @ + 1]

\* StartTask with a request that revalidates an entry that is present.
StartTaskRevalidate(d, t, f) ==
    IF Exists(f, cache_path(UrlOf(t)))
    THEN [d EXCEPT !.pc[t] = "read", !.requests[UrlOf(t)] = @ + 1, !.sent[t] = @ + 1]
    ELSE [d EXCEPT !.pc[t] = "get", !.requests[UrlOf(t)] = @ + 1, !.sent[t] = @ + 1]

\* StartTask that sends no request of its own when a future for the same URL
\* has sent one in this run.
StartTaskCoalesced(d, t, f) ==
    IF Exists(f, cache_path(UrlOf(t)))
    THEN [d EXCEPT !.pc[t] = "read"]
    ELSE IF d.requests[UrlOf(t)] > 0
    THEN [d EXCEPT !.pc[t] = "get"]
    ELSE [d EXCEPT !.pc[t] = "get", !.requests[UrlOf(t)] = @ + 1, !.sent[t] = @ + 1]

\* download_gem up to its first await: compute the cache path and test it; on
\* a hit start reading the file, on a miss send the request.  An Err of
\* url_for_spec is returned before any of that.
StartTask(d, t, f) ==
    IF url_for_spec_err(d.lockfile[t[1]].remote, SpecOf(t)) # NoError
    THEN [d EXCEPT !.pc[t] = "err",
                   !.errors[t] = url_for_spec_err(d.lockfile[t[1]].remote, SpecOf(t)),
                   !.order = Logged(@, t)]
    ELSE IF Exists(f, cache_path(UrlOf(t)))
    THEN [d EXCEPT !.pc[t] = "read"]
    ELSE [d EXCEPT !.pc[t] = "get", !.requests[UrlOf(t)] = @ + 1, !.sent[t] = @ + 1]

\* FillSpecs in batches: the next max_concurrent_requests futures are pulled
\* only when all of the batch before have been handed on.
RECURSIVE FillSpecsBatch(_, _, _)
FillSpecsBatch(d, s, f) ==
    IF /\ d.started[s] < SpecCount(s)
       /\ d.started[s] % limit # 0 \/ d.started[s] = d.yielded[s]
    THEN FillSpecsBatch(StartTask([d EXCEPT !.started[s] = @ + 1],
                                  <<s, d.started[s] + 1>>, f), s, f)
    ELSE d

\* Buffered::poll_next, first part: pull futures from the spec stream while
\* the queue holds fewer than max_concurrent_requests.
RECURSIVE FillSpecs(_, _, _)
FillSpecs(d, s, f) ==
    IF d.started[s] - d.yielded[s] < limit /\ d.started[s] < SpecCount(s)
    THEN FillSpecs(StartTask([d EXCEPT !.started[s] = @ + 1],
                             <<s, d.started[s] + 1>>, f), s, f)
    ELSE d

\* What becomes of a future that is dropped: work handed to the blocking pool
\* goes on without it, anything else ends.
Dropped(state) ==
    IF state = "mkdir" THEN "z_mkdir"
    ELSE IF state = "write" THEN "z_write"
    ELSE IF state = "writing" THEN "z_writing"
    ELSE IF state \in {"get", "read", "ok", "err"} THEN "dropped"
    ELSE state

DropTasks(d, tasks) ==
    [d EXCEPT !.pc = [t \in Tasks |-> IF t \in tasks THEN Dropped(d.pc[t]) ELSE d.pc[t]]]

RECURSIVE PollSource(_, _, _)

\* PollSource on buffer_unordered: outputs are taken as they complete.
PollSourceUnordered(d, s, f) ==
    LET filled == FillSpecs(d, s, f)
        ready == {t \in InQueue(filled, s) : filled.pc[t] = "ok"}
        t == CHOOSE x \in ready : \A y \in ready : y[2] <= x[2]
    IN  IF filled.yielded[s] = SpecCount(s)
        THEN [filled EXCEPT !.src[s] = "ok"]
        ELSE IF ready # {}
        THEN [filled EXCEPT
                 !.pc[t] = "yielded",
                 !.items[s] = Append(@, Downloaded(filled.got[t], SpecOf(t)))]
        ELSE filled

\* PollSource with collect in place of try_collect: an Err is kept as an
\* item and the stream is polled on.
PollSourceKeepGoing(d, s, f) ==
    LET filled == FillSpecs(d, s, f)
        head == <<s, filled.yielded[s] + 1>>
    IN  IF filled.yielded[s] = SpecCount(s)
        THEN [filled EXCEPT !.src[s] = IF filled.raised[s] = NoTask THEN "ok" ELSE "err"]
        ELSE IF filled.pc[head] \in {"ok", "err"}
        THEN PollSource([filled EXCEPT
                            !.pc[head] = IF @ = "ok" THEN "yielded" ELSE "raised",
                            !.yielded[s] = @ + 1,
                            !.raised[s] = IF filled.pc[head] = "err" /\ @ = NoTask THEN head ELSE @,
                            !.items[s] = Append(@, Downloaded(filled.got[head], SpecOf(head)))],
                        s, f)
        ELSE filled

\* try_collect of download_gem_source on the buffered stream: refill, take the
\* output that is next in order, push an Ok and go on, return on an Err
\* (dropping the stream and the futures in it), finish when the stream ends.
PollSource(d, s, f) ==
    LET filled == FillSpecs(d, s, f)
        head == <<s, filled.yielded[s] + 1>>
    IN  IF filled.yielded[s] = SpecCount(s)
        THEN [filled EXCEPT !.src[s] = "ok"]
        ELSE IF filled.pc[head] = "ok"
        THEN PollSource([filled EXCEPT
                            !.pc[head] = "yielded",
                            !.yielded[s] = @ + 1,
                            !.items[s] = Append(@, Downloaded(filled.got[head], SpecOf(head)))],
                        s, f)
        ELSE IF filled.pc[head] = "err"
        THEN DropTasks([filled EXCEPT
                            !.pc[head] = "raised",
                            !.src[s] = "err",
                            !.raised[s] = head],
                       InQueue(filled, s) \ {head})
        ELSE filled

\* FillSources with max_concurrent_requests as the ceiling on sections.
RECURSIVE FillSourcesUserLimit(_)
FillSourcesUserLimit(d) ==
    IF d.ostarted - d.oyielded < limit /\ d.ostarted < Len(d.lockfile)
    THEN FillSourcesUserLimit([d EXCEPT !.ostarted = @ + 1,
                                        !.src[d.ostarted + 1] = "running"])
    ELSE d

\* Buffered::poll_next of download_gems, first part: start sections while
\* fewer than OuterLimit are in the queue.
RECURSIVE FillSources(_)
FillSources(d) ==
    IF d.ostarted - d.oyielded < OuterLimit /\ d.ostarted < Len(d.lockfile)
    THEN FillSources([d EXCEPT !.ostarted = @ + 1, !.src[d.ostarted + 1] = "running"])
    ELSE d

\* Every running download_gem_source future polled once.
RECURSIVE PollSources(_, _, _)
PollSources(d, todo, f) ==
    IF todo = {}
    THEN d
    ELSE LET s == CHOOSE x \in todo : TRUE
         IN  PollSources(IF d.src[s] = "running" THEN PollSource(d, s, f) ELSE d,
                         todo \ {s}, f)

RECURSIVE Flatten(_)
Flatten(seqs) == IF seqs = <<>> THEN <<>> ELSE Head(seqs) \o Flatten(Tail(seqs))

\* The sections dropped with the outer stream: those started and not yielded.
DropSources(d, dropped) ==
    LET tasks == UNION {InQueue(d, s) : s \in dropped}
    IN  [DropTasks(d, tasks) EXCEPT
            !.src = [s \in Sources |-> IF s \in dropped THEN "dropped" ELSE d.src[s]]]

\* try_collect of download_gems on the buffered stream of sections, then the
\* flattening of what it collected.
RECURSIVE PollDownload(_, _)
PollDownload(d, f) ==
    LET polled == PollSources(FillSources(d), Sources, f)
        head == polled.oyielded + 1
    IN  IF polled.oyielded = Len(polled.lockfile)
        THEN [polled EXCEPT !.result = [state |-> "ok", error |-> NoTask,
                                        downloaded |-> Flatten(polled.collected)]]
        ELSE IF polled.src[head] = "ok"
        THEN PollDownload([polled EXCEPT
                              !.src[head] = "yielded",
                              !.oyielded = @ + 1,
                              !.collected = Append(@, polled.items[head])],
                          f)
        ELSE IF polled.src[head] = "err"
        THEN DropSources([polled EXCEPT
                              !.src[head] = "raised",
                              !.result = [state |-> "err", error |-> polled.raised[head],
                                          downloaded |-> <<>>]],
                         ((head + 1)..polled.ostarted))
        ELSE polled

\* download_gems polled after an event, unless it has returned.
download_gems(d, f) ==
    IF d.result.state \in {"ok", "err"} THEN d ELSE PollDownload(d, f)

\* ------------------------------------------------------------------ Removal values

\* impl AddAssign for Removal: a += b leaves a holding both sums.
RemovalAddAssign(a, b) ==
    [a EXCEPT !.dirs = @ + b.dirs, !.bytes = @ + b.bytes]

\* Display that always uses the combined phrasing.
RemovalDisplayCombined(r) ==
    "Removed " \o ToString(r.dirs) \o " directories ("
        \o ToString(r.bytes) \o " bytes)"

\* impl Display for Removal
RemovalDisplay(r) ==
    IF r.dirs = 0 /\ r.bytes = 0 THEN "No cache entries removed"
    ELSE IF r.dirs = 0 THEN "Removed " \o ToString(r.bytes) \o " bytes"
    ELSE IF r.bytes = 0
         THEN "Removed " \o ToString(r.dirs) \o " directories"
    ELSE "Removed " \o ToString(r.dirs) \o " directories ("
             \o ToString(r.bytes) \o " bytes)"

\* ------------------------------------------------------------------ cache paths

\* A Utf8Path: whether it starts at the file system's root, and its components.
\* The empty path and "." have no component.
Path(abs, parts) == [abs |-> abs, parts |-> parts]

\* Utf8Path::join: an absolute argument replaces the path.
PathJoin(p, q) == IF q.abs THEN q ELSE Path(p.abs, p.parts \o q.parts)

\* Utf8Path::parent: None for a path without components.
HasParent(p) == p.parts # <<>>

PathParent(p) == Path(p.abs, SubSeq(p.parts, 1, Len(p.parts) - 1))

\* Cache::bucket that forgets the bucket's directory.
cache_bucketRoot(root, b) == root

\* Cache::bucket
cache_bucket(root, b) == PathJoin(root, Path(FALSE, <<to_str(b)>>))

\* CacheEntry::new
CacheEntry_new(dir, file) == PathJoin(dir, file)

\* CacheEntry::from_path
CacheEntry_from_path(path) == path

\* CacheEntry::dir; it panics on a path without parent.
CacheEntry_dir(entry) == PathParent(entry)

\* CacheEntry::shard
CacheEntry_shard(entry) == CacheEntry_dir(entry)

\* CacheEntry::with_file
CacheEntry_with_file(entry, file) == PathJoin(CacheEntry_dir(entry), file)

\* CacheShard::entry
CacheShard_entry(shard, file) == CacheEntry_new(shard, file)

\* Cache::shard
cache_shard(root, b, dir) == PathJoin(cache_bucket(root, b), dir)

\* Cache::entry
cache_entry(root, b, dir, file) ==
    CacheEntry_new(PathJoin(cache_bucket(root, b), dir), file)

\* Nothing has been called.
NoCall == [op |-> "none"]

\* ------------------------------------------------------------------ the installer

\* Largest number of entries of a gem's data.tar.gz.
MaxEntries == 2

\* What the ruby process asked for Bundler's bundle path can do: it cannot be
\* started, it exits with a failure and prints nothing, it exits normally and
\* prints nothing, it prints the bundle path.
Resolvers == {"absent", "fails", "silent", "prints"}

\* The text of the standard output of a process: whether it is UTF-8 and the
\* path it spells.
Output(utf8, text) == [utf8 |-> utf8, text |-> text]

\* Child::wait_with_output on a child started by spawn(): the streams are
\* inherited, not piped, so whatever the child prints goes to the terminal
\* and Output::stdout is empty.
wait_with_output(resolver) == Output(TRUE, Path(FALSE, <<>>))

\* find_bundle_path: an error of spawn or of wait_with_output is an Error::Io,
\* an output that is not UTF-8 is Error::BadBundlePath, anything else is the
\* bundle path.
find_bundle_path(resolver) ==
    IF resolver = "absent"
    THEN [ok |-> FALSE, error |-> "Io", path |-> Path(FALSE, <<>>)]
    ELSE LET stdout == wait_with_output(resolver)
         IN  IF ~stdout.utf8
             THEN [ok |-> FALSE, error |-> "BadBundlePath", path |-> Path(FALSE, <<>>)]
             ELSE [ok |-> TRUE, error |-> "none", path |-> stdout.text]

\* The working directory of the process.
WorkDir == <<"bundle">>

\* The place a path names for the process: a relative path starts at the
\* working directory.
Absolute(path) == IF path.abs THEN path.parts ELSE WorkDir \o path.parts

\* The directory the gems are installed into: the one the bundle path that
\* find_bundle_path returns names.
BundlePath == Absolute(find_bundle_path("prints").path)

\* The file system before anything is installed: the bundle path exists.
BundleFs == [q \in {Root, BundlePath} |-> Dir]

\* A gzip stream of x, and something else where a gzip stream is expected.
Gz(x) == [magic |-> <<31, 139>>, payload |-> x]

NotGz(x) == [magic |-> <<0, 0>>, payload |-> x]

\* GzDecoder: the payload of a gzip stream, an error on anything else.
GzDecoder(z) ==
    IF z.magic = <<31, 139>> THEN [ok |-> TRUE, out |-> z.payload]
    ELSE [ok |-> FALSE, out |-> <<>>]

\* format!("{name}-{version}")
nameversion(spec) == ToString(spec.name) \o "-" \o ToString(spec.version)

\* The place a path with ".." components names once the system follows it.
RECURSIVE Resolve(_, _)
Resolve(at, parts) ==
    IF parts = <<>> THEN at
    ELSE IF Head(parts) = ".." THEN Resolve(Parent(at), Tail(parts))
    ELSE Resolve(Append(at, Head(parts)), Tail(parts))

\* std::fs::create_dir_all on a path that may hold ".." components: every
\* prefix is made in turn.
RECURSIVE create_dir_all_from(_, _, _)
create_dir_all_from(f, parts, k) ==
    IF k > Len(parts) THEN [ok |-> TRUE, fs |-> f]
    ELSE LET made == create_dir_all(f, Resolve(Root, SubSeq(parts, 1, k)))
         IN  IF made.ok THEN create_dir_all_from(made.fs, parts, k + 1)
             ELSE [ok |-> FALSE, fs |-> f]

\* tar::Entry::unpack(dst): a directory entry makes the directory, a file
\* entry makes the file or replaces the file that is there.
EntryUnpack(f, entry, dst) ==
    LET at == Resolve(Root, dst)
    IN  IF ~IsDir(f, Parent(at)) \/ at = Root THEN [ok |-> FALSE, fs |-> f]
        ELSE IF entry.kind = "dir"
        THEN IF Exists(f, at) /\ ~IsDir(f, at) THEN [ok |-> FALSE, fs |-> f]
             ELSE [ok |-> TRUE, fs |-> With(f, at, Dir)]
        ELSE IF IsDir(f, at) THEN [ok |-> FALSE, fs |-> f]
        ELSE [ok |-> TRUE, fs |-> With(f, at, File(entry.data))]

\* data_dir.join(entry_path): an absolute entry path replaces data_dir.
Dst(data_dir, entry_path) ==
    IF entry_path.abs THEN entry_path.parts ELSE data_dir \o entry_path.parts

\* The body of the loop over the entries of data.tar.gz.
UnpackData(acc, data_dir, entry) ==
    IF ~acc.ok THEN acc
    ELSE LET dst == Dst(data_dir, entry.path)
             above == create_dir_all_from(acc.fs, Parent(dst), 1)
         IN  IF ~above.ok THEN [ok |-> FALSE, fs |-> above.fs]
             ELSE EntryUnpack(above.fs, entry, dst)

RECURSIVE UnpackDataEntries(_, _, _)
UnpackDataEntries(acc, data_dir, entries) ==
    IF entries = <<>> THEN acc
    ELSE UnpackDataEntries(UnpackData(acc, data_dir, Head(entries)),
                           data_dir, Tail(entries))

\* The names unpack_tarball matches and does nothing for.
Ignored == {"checksums.yaml.gz", "data.tar.gz.sig", "metadata.gz.sig", "checksums.yaml.gz.sig"}

\* The arm of unpack_tarball for one entry of the gem's archive: what it
\* does to the file system.
UnpackArm(acc, bundle_path, nv, entry) ==
    IF entry.name = "metadata.gz"
    THEN LET metadata_dir == Join(bundle_path, "specifications")
             made == create_dir_all(acc.fs, metadata_dir)
             dst_path == Join(metadata_dir, nv \o ".gemspec")
             unzipped == GzDecoder(entry.body)
         IN  IF ~made.ok \/ IsDir(made.fs, dst_path)
             THEN [ok |-> FALSE, fs |-> made.fs]
             ELSE IF ~unzipped.ok
             THEN [ok |-> FALSE, fs |-> With(made.fs, dst_path, File(<<>>))]
             ELSE [ok |-> TRUE, fs |-> With(made.fs, dst_path, File(unzipped.out))]
    ELSE IF entry.name = "data.tar.gz"
    THEN LET data_dir == Join(Join(bundle_path, "gems"), nv)
             made == create_dir_all(acc.fs, data_dir)
             unzipped == GzDecoder(entry.body)
         IN  IF ~made.ok \/ ~unzipped.ok THEN [ok |-> FALSE, fs |-> made.fs]
             ELSE UnpackDataEntries([ok |-> TRUE, fs |-> made.fs], data_dir,
                                    unzipped.out)
    ELSE [ok |-> TRUE, fs |-> acc.fs]

\* UnpackEntry that takes a name it does not know for an error.
UnpackEntryStrict(acc, bundle_path, nv, entry) ==
    IF ~acc.ok THEN acc
    ELSE LET out == UnpackArm(acc, bundle_path, nv, entry)
         IN  [ok |-> out.ok /\ entry.name \in {"metadata.gz", "data.tar.gz"} \cup Ignored,
              fs |-> out.fs, log |-> acc.log]

\* The body of the loop of unpack_tarball for one entry: the arm of its
\* name; a name that matches none is logged.
UnpackEntry(acc, bundle_path, nv, entry) ==
    IF ~acc.ok THEN acc
    ELSE LET out == UnpackArm(acc, bundle_path, nv, entry)
         IN  [ok |-> out.ok, fs |-> out.fs,
              log |-> IF entry.name \in {"metadata.gz", "data.tar.gz"} \cup Ignored
                      THEN acc.log
                      ELSE Append(acc.log, entry.name)]

RECURSIVE UnpackEntries(_, _, _, _)
UnpackEntries(acc, bundle_path, nv, entries) ==
    IF entries = <<>> THEN acc
    ELSE UnpackEntries(UnpackEntry(acc, bundle_path, nv, Head(entries)),
                       bundle_path, nv, Tail(entries))

\* Downloaded::unpack_tarball
unpack_tarball(f, download, bundle_path) ==
    UnpackEntries([ok |-> TRUE, fs |-> f, log |-> <<>>], bundle_path,
                  nameversion(download.spec), download.contents)

\* One call of unpack_tarball as install_gems made it.
Unpacked(download, before, out) ==
    [spec |-> download.spec, contents |-> download.contents, before |-> before,
     after |-> out.fs, ok |-> out.ok, log |-> out.log]

\* install_gems: the downloads are unpacked in turn until one fails.
RECURSIVE InstallLoop(_, _, _)
InstallLoop(acc, downloaded, bundle_path) ==
    IF downloaded = <<>> \/ ~acc.ok THEN acc
    ELSE LET out == unpack_tarball(acc.fs, Head(downloaded), bundle_path)
         IN  InstallLoop([ok |-> out.ok, error |-> IF out.ok THEN "none" ELSE "Io",
                          fs |-> out.fs,
                          steps |-> Append(acc.steps,
                                           Unpacked(Head(downloaded), acc.fs, out))],
                         Tail(downloaded), bundle_path)

\* install_gems: find the bundle path, then unpack.
install_gems(f, downloaded, resolver) ==
    LET found == find_bundle_path(resolver)
    IN  IF ~found.ok
        THEN [ok |-> FALSE, error |-> found.error, fs |-> f, steps |-> <<>>]
        ELSE InstallLoop([ok |-> TRUE, error |-> "none", fs |-> f, steps |-> <<>>],
                         downloaded, Absolute(found.path))

\* Nothing has been installed.
NoInstall ==
    [op |-> "none", ok |-> TRUE, error |-> "none", resolver |-> "prints",
     fs |-> BundleFs, steps |-> <<>>]

\* The entries a data.tar.gz is made of here: a file in a directory, the
\* directory, a file reached through "..", a file with an absolute path.
InnerEntry(path, kind, data) == [path |-> path, kind |-> kind, data |-> data]

InnerEntries ==
    {InnerEntry(Path(FALSE, <<"lib", "foo.rb">>), "file", <<102>>),
     InnerEntry(Path(FALSE, <<"lib">>), "dir", <<>>),
     InnerEntry(Path(FALSE, <<"..", "..", "..", "evil">>), "file", <<101>>),
     InnerEntry(Path(TRUE, <<"etc", "evil">>), "file", <<101>>)}

InnerArchives == UNION {[1..n -> InnerEntries] : n \in 0..MaxEntries}

OuterEntry(name, body) == [name |-> name, body |-> body]

Metadata == OuterEntry("metadata.gz", Gz(<<109>>))

Data(inner) == OuterEntry("data.tar.gz", Gz(inner))

\* The gem archives a server can send.
Archives ==
    {<<>>, <<Metadata>>, <<OuterEntry("metadata.gz", NotGz(<<109>>)), Data(<<>>)>>,
     <<OuterEntry("README", Gz(<<>>)), Metadata,
       Data(<<InnerEntry(Path(FALSE, <<"lib", "foo.rb">>), "file", <<102>>)>>)>>,
     <<OuterEntry("metadata.gz.sig", NotGz(<<1>>)), OuterEntry("data.tar.gz.sig", NotGz(<<2>>)),
       OuterEntry("checksums.yaml.gz.sig", NotGz(<<3>>)), Metadata>>,
     <<OuterEntry("checksums.yaml.gz", NotGz(<<0>>)), OuterEntry("./metadata.gz", Gz(<<109>>)),
       Data(<<>>)>>}
    \cup UNION {{<<Metadata, Data(inner)>>,
                 <<Data(inner), OuterEntry("checksums.yaml.gz", Gz(<<>>)), Metadata>>,
                 <<Data(inner), OuterEntry("README", Gz(<<>>))>>}
                : inner \in InnerArchives}

\* The gems install_gems is given: the first two of the first GEM section.
ToInstall == <<SpecOf(<<1, 1>>), SpecOf(<<1, 2>>)>>

\* ------------------------------------------------------------------ cache operations

CacheInit ==
    /\ \/ fs \in {NoFs, RootFile}
       \/ \E choice \in Choices : fs = Populate(choice)
    /\ pre = fs
    /\ last = NoOp
    /\ limit = 1
    /\ run = 1
    /\ clean = TRUE
    /\ dl = Fresh
    /\ handles = [h \in Handles |-> NoHandle]
    /\ ephemeral = FALSE
    /\ pure = NoCall
    /\ inst = NoInstall

DoInit ==
    LET out == init(fs)
    IN  /\ pre' = fs
        /\ fs' = out.fs
        /\ last' = Done("init", Root, out, {})
        /\ UNCHANGED <<fetchVars, handleVars, pure, inst>>

DoClear ==
    LET out == clear(fs)
    IN  /\ pre' = fs
        /\ fs' = out.fs
        /\ last' = Done("clear", Root, out, {})
        /\ UNCHANGED <<fetchVars, handleVars, pure, inst>>

DoPrune ==
    \E visited \in SUBSET ReadDir(fs, Root) :
      \E failure \in EntryFailures(fs, visited) :
        LET out == prune(fs, visited, failure)
        IN  /\ pre' = fs
            /\ fs' = out.fs
            /\ last' = [Done("prune", Root, out, visited) EXCEPT !.failed = failure,
                                                                 !.prior = Prior]
            /\ UNCHANGED <<fetchVars, handleVars, pure, inst>>

\* A prune in which a removal fails.
DoPruneInterrupted ==
    \E visited \in SUBSET ReadDir(fs, Root) :
      \E failure \in RemovalFailures(fs, visited) :
        LET out == prune(fs, visited, failure)
        IN  /\ pre' = fs
            /\ fs' = out.fs
            /\ last' = [Done("prune", Root, out, visited) EXCEPT !.failed = failure,
                                                                 !.prior = Prior]
            /\ UNCHANGED <<fetchVars, handleVars, pure, inst>>

Elsewhere == {<<"nonexistent">>, <<"nonexistent", "path">>}

DoRmRf ==
    \E p \in {Root} \cup ReadDir(fs, Root) \cup Elsewhere :
        LET out == rm_rf(fs, p)
        IN  /\ pre' = fs
            /\ fs' = out.fs
            /\ last' = Done("rm_rf", p, out, {})
            /\ UNCHANGED <<fetchVars, handleVars, pure, inst>>

CacheNext == DoInit \/ DoClear \/ DoPrune \/ DoRmRf

CacheSpec == CacheInit /\ [][CacheNext]_vars

\* One prune of each initial cache, with every error that can end it.
PruneNext ==
    \/ last = NoOp /\ DoPrune
    \/ last = NoOp /\ DoPruneInterrupted

PruneSpec == CacheInit /\ [][PruneNext]_vars

\* ------------------------------------------------------------------ the life of Cache values

\* A cache made by Cache::temp is a new empty directory; one made by
\* Cache::from_path is whatever the path holds.
HandleInit ==
    /\ ephemeral \in BOOLEAN
    /\ IF ephemeral
       THEN fs = [q \in {Root} |-> Dir]
       ELSE \/ fs \in {NoFs, RootFile}
            \/ \E choice \in Choices : fs = Populate(choice)
    /\ handles = [h \in Handles |->
                    IF h = 1 THEN (IF ephemeral THEN temp ELSE from_path)
                    ELSE NoHandle]
    /\ pre = fs
    /\ last = NoOp
    /\ limit = 1
    /\ run = 1
    /\ clean = TRUE
    /\ dl = Fresh
    /\ pure = NoCall
    /\ inst = NoInstall

Same(f) == Outcome(TRUE, f, RemovalDefault, 0, FALSE)

\* #[derive(Clone)]: the copy holds what the original holds.
HClone(h, k) ==
    /\ handles[h].state = "live"
    /\ handles[k].state = "free"
    /\ handles' = [handles EXCEPT ![k] = handles[h]]
    /\ pre' = fs
    /\ fs' = fs
    /\ last' = Done("clone", Root, Same(fs), {})
    /\ UNCHANGED <<fetchVars, ephemeral, pure, inst>>

\* The value goes out of scope.
HDrop(h) ==
    /\ handles[h].state = "live"
    /\ handles' = [handles EXCEPT ![h].state = "gone"]
    /\ pre' = fs
    /\ fs' = Released(fs, handles, handles')
    /\ last' = Done("drop", Root, Same(fs'), {})
    /\ UNCHANGED <<fetchVars, ephemeral, pure, inst>>

\* Cache::init(self): the value is consumed; on success another takes its
\* place, on failure it is dropped.
HInit(h) ==
    /\ handles[h].state = "live"
    /\ LET out == init(fs)
       IN  /\ handles' = [handles EXCEPT ![h] =
                            IF out.ok THEN initHandle(@)
                            ELSE [@ EXCEPT !.state = "gone"]]
           /\ pre' = fs
           /\ fs' = Released(out.fs, handles, handles')
           /\ last' = Done("init", Root, out, {})
    /\ UNCHANGED <<fetchVars, ephemeral, pure, inst>>

\* Cache::clear(&self)
HClear(h) ==
    /\ handles[h].state = "live"
    /\ LET out == clear(fs)
       IN  /\ pre' = fs
           /\ fs' = out.fs
           /\ last' = Done("clear", Root, out, {})
    /\ UNCHANGED <<fetchVars, handles, ephemeral, pure, inst>>

HandleNext ==
    \/ \E h, k \in Handles : HClone(h, k)
    \/ \E h \in Handles : HDrop(h)
    \/ \E h \in Handles : HInit(h)
    \/ \E h \in Handles : HClear(h)

HandleSpec == HandleInit /\ [][HandleNext]_vars

\* ------------------------------------------------------------------ functions without effects

\* The functions keep nothing from one call to the next, so a behaviour is one
\* call.

Removals == {Removal(d, b) : d \in 0..MaxBytes, b \in 0..MaxBytes}

\* Cache roots, directories and file names that callers can pass.
RootPaths == {Path(TRUE, <<"cache">>), Path(FALSE, <<"cache">>)}

DirPaths == {Path(FALSE, <<>>), Path(FALSE, <<"gems">>),
             Path(FALSE, <<"a", "b">>), Path(TRUE, <<"gems">>)}

FilePaths == {Path(FALSE, <<>>), Path(FALSE, <<"x.gem">>), Path(FALSE, <<"y.gem">>),
              Path(FALSE, <<"sub", "x.gem">>), Path(TRUE, <<"x.gem">>), Path(TRUE, <<>>)}

PureInit ==
    /\ fs = NoFs
    /\ pre = fs
    /\ last = NoOp
    /\ limit = 1
    /\ run = 1
    /\ clean = TRUE
    /\ dl = Fresh
    /\ handles = [h \in Handles |-> NoHandle]
    /\ ephemeral = FALSE
    /\ pure = NoCall
    /\ inst = NoInstall

\* a + b, b + a, (a + b) + c, a + (b + c), a + Removal::default(), a += b
CallAdd ==
    /\ pure = NoCall
    /\ \E a, b, c \in Removals :
        /\ pure' = [op |-> "add", a |-> a, b |-> b, c |-> c,
                    ab |-> RemovalAdd(a, b),
                    ba |-> RemovalAdd(b, a),
                    ab_c |-> RemovalAdd(RemovalAdd(a, b), c),
                    a_bc |-> RemovalAdd(a, RemovalAdd(b, c)),
                    a_0 |-> RemovalAdd(a, RemovalDefault),
                    assigned |-> RemovalAddAssign(a, b)]
        /\ UNCHANGED <<fs, pre, last, fetchVars, handleVars, inst>>

\* removal.to_string()
CallDisplay ==
    /\ pure = NoCall
    /\ \E r \in Removals :
        /\ pure' = [op |-> "display", r |-> r, text |-> RemovalDisplay(r)]
        /\ UNCHANGED <<fs, pre, last, fetchVars, handleVars, inst>>

\* cache.entry(b, d, f), cache.shard(b, d), cache.shard(b, d).entry(f),
\* entry.shard(), entry.with_file(g)
CallEntry ==
    /\ pure = NoCall
    /\ \E root \in RootPaths, b \in CacheBucket, d \in DirPaths, f, g \in FilePaths :
        LET entry == cache_entry(root, b, d, f)
        IN  /\ pure' = [op |-> "entry", root |-> root, bucket |-> b, dir |-> d,
                        file |-> f, other |-> g,
                        entry |-> entry,
                        shard |-> cache_shard(root, b, d),
                        shard_entry |-> CacheShard_entry(cache_shard(root, b, d), f),
                        panics |-> ~HasParent(entry),
                        entry_shard |-> CacheEntry_shard(entry),
                        sibling |-> CacheEntry_with_file(entry, g)]
            /\ UNCHANGED <<fs, pre, last, fetchVars, handleVars, inst>>

\* CacheEntry::from_path(p), then dir(), shard() and with_file(g) on it;
\* dir() panics when the path has no parent, and the other two call it.
CallFromPath ==
    /\ pure = NoCall
    /\ \E path \in RootPaths \cup DirPaths \cup FilePaths, g \in FilePaths :
        LET entry == CacheEntry_from_path(path)
        IN  /\ pure' = [op |-> "from_path", path |-> path, other |-> g,
                        entry |-> entry,
                        panics |-> ~HasParent(entry),
                        entry_shard |-> CacheEntry_shard(entry),
                        sibling |-> CacheEntry_with_file(entry, g)]
            /\ UNCHANGED <<fs, pre, last, fetchVars, handleVars, inst>>

PureNext == CallAdd \/ CallDisplay \/ CallEntry \/ CallFromPath

PureSpec == PureInit /\ [][PureNext]_vars

\* ------------------------------------------------------------------ installation

InstallInit ==
    /\ fs = NoFs
    /\ pre = fs
    /\ last = NoOp
    /\ limit = 1
    /\ run = 1
    /\ clean = TRUE
    /\ dl = Fresh
    /\ handles = [h \in Handles |-> NoHandle]
    /\ ephemeral = FALSE
    /\ pure = NoCall
    /\ inst = NoInstall

\* What install_gems is run on: any archives for the gems when ruby prints the
\* bundle path, the same archive for every gem when it does not.
InstallInputs ==
    {<<contents, "prints">> : contents \in [1..Len(ToInstall) -> Archives]}
    \cup {<<[i \in 1..Len(ToInstall) |-> a], resolver>> :
              a \in Archives, resolver \in Resolvers \ {"prints"}}

\* install_gems(gems) on the downloads of the run.
Install ==
    /\ inst.op = "none"
    /\ \E input \in InstallInputs :
          LET contents == input[1]
              resolver == input[2]
              downloaded == [i \in 1..Len(ToInstall) |->
                                Downloaded(contents[i], ToInstall[i])]
              out == install_gems(inst.fs, downloaded, resolver)
          IN  inst' = [op |-> "install", ok |-> out.ok, error |-> out.error,
                       resolver |-> resolver, fs |-> out.fs, steps |-> out.steps]
    /\ UNCHANGED <<fs, pre, last, fetchVars, handleVars, pure>>

InstallNext == Install

InstallSpec == InstallInit /\ [][InstallNext]_vars

\* ------------------------------------------------------------------ `rv ci`

FetchInit ==
    /\ fs = init(NoFs).fs
    /\ pre = fs
    /\ last = NoOp
    /\ limit \in 1..MaxLimit
    /\ run = 1
    /\ clean = TRUE
    /\ dl = Fresh
    /\ handles = [h \in Handles |-> NoHandle]
    /\ ephemeral = FALSE
    /\ pure = NoCall
    /\ inst = NoInstall

Running == dl.result.state = "running"

\* ci_inner calls download_gems and polls it for the first time.
StartRun ==
    /\ dl.result.state = "idle"
    /\ dl' = download_gems([dl EXCEPT !.result.state = "running"], fs)
    /\ UNCHANGED <<fs, pre, last, limit, run, clean, handleVars, pure, inst>>

\* ReadDone that checks what it read against the gem's bytes and fails on a
\* difference.
ReadDoneVerified(t) ==
    /\ Running
    /\ dl.pc[t] = "read"
    /\ dl' = download_gems(
                 IF fs[cache_path(UrlOf(t))].data = Payload(UrlOf(t))
                 THEN [dl EXCEPT !.pc[t] = "ok",
                                 !.got[t] = fs[cache_path(UrlOf(t))].data,
                                 !.order = Logged(@, t)]
                 ELSE [dl EXCEPT !.pc[t] = "err", !.order = Logged(@, t)], fs)
    /\ UNCHANGED <<fs, pre, last, limit, run, clean, handleVars, pure, inst>>

\* tokio::fs::read of a cache hit completes with what the file holds now.
ReadDone(t) ==
    /\ Running
    /\ dl.pc[t] = "read"
    /\ dl' = download_gems([dl EXCEPT !.pc[t] = "ok",
                                      !.got[t] = fs[cache_path(UrlOf(t))].data,
                                      !.order = Logged(@, t)], fs)
    /\ UNCHANGED <<fs, pre, last, limit, run, clean, handleVars, pure, inst>>

\* The response to the GET arrives with the gem's bytes.
RespondOk(t) ==
    /\ Running
    /\ dl.pc[t] = "get"
    /\ dl' = download_gems([dl EXCEPT !.pc[t] = "mkdir", !.got[t] = Payload(UrlOf(t))], fs)
    /\ UNCHANGED <<fs, pre, last, limit, run, clean, handleVars, pure, inst>>

\* The GET fails.
RespondErr(t) ==
    /\ Running
    /\ dl.pc[t] = "get"
    /\ dl' = download_gems([dl EXCEPT !.pc[t] = "err", !.errors[t] = Reqwest,
                                      !.order = Logged(@, t)], fs)
    /\ UNCHANGED <<fs, pre, last, limit, run, clean, handleVars, pure, inst>>

\* tokio::fs::create_dir_all of the entry's parent runs on the blocking pool.
MkdirDone(t) ==
    /\ dl.pc[t] \in {"mkdir", "z_mkdir"}
    /\ fs' = create_dir_all(fs, Parent(cache_path(UrlOf(t)))).fs
    /\ dl' = download_gems([dl EXCEPT !.pc[t] = IF @ = "mkdir" THEN "write" ELSE "dropped"], fs')
    /\ UNCHANGED <<pre, last, limit, run, clean, handleVars, pure, inst>>

\* tokio::fs::write on the blocking pool creates or truncates the file ...
WriteBegin(t) ==
    /\ dl.pc[t] \in {"write", "z_write"}
    /\ fs' = With(fs, cache_path(UrlOf(t)), File(<<>>))
    /\ dl' = download_gems([dl EXCEPT !.pc[t] = IF @ = "write" THEN "writing" ELSE "z_writing"], fs')
    /\ UNCHANGED <<pre, last, limit, run, clean, handleVars, pure, inst>>

\* WriteEnd that reports the write done without having written the bytes.
WriteEndUnwritten(t) ==
    /\ dl.pc[t] \in {"writing", "z_writing"}
    /\ dl' = download_gems([dl EXCEPT
                                !.pc[t] = IF @ = "writing" THEN "ok" ELSE "dropped",
                                !.wrote = IF dl.pc[t] = "writing" THEN @ \cup {t} ELSE @,
                                !.order = IF dl.pc[t] = "writing" THEN Logged(@, t) ELSE @],
                            fs)
    /\ UNCHANGED <<fs, pre, last, limit, run, clean, handleVars, pure, inst>>

\* ... and then writes the bytes.
WriteEnd(t) ==
    /\ dl.pc[t] \in {"writing", "z_writing"}
    /\ fs' = With(fs, cache_path(UrlOf(t)), File(dl.got[t]))
    /\ dl' = download_gems([dl EXCEPT
                                !.pc[t] = IF @ = "writing" THEN "ok" ELSE "dropped",
                                !.wrote = IF dl.pc[t] = "writing" THEN @ \cup {t} ELSE @,
                                !.order = IF dl.pc[t] = "writing" THEN Logged(@, t) ELSE @],
                            fs')
    /\ UNCHANGED <<pre, last, limit, run, clean, handleVars, pure, inst>>

\* The process has ended (a write that has begun is finished first) and
\* `rv ci` is run again on the same lockfile and cache.
NextRun ==
    /\ dl.result.state \in {"ok", "err"}
    /\ \A t \in Tasks : dl.pc[t] # "z_writing"
    /\ run < MaxRuns
    /\ run' = run + 1
    /\ clean' = (clean /\ dl.result.state = "ok")
    /\ dl' = [FreshOf(dl.lockfile) EXCEPT !.found = Found(dl.lockfile, fs)]
    /\ UNCHANGED <<fs, pre, last, limit, handleVars, pure, inst>>

FetchNext ==
    \/ StartRun
    \/ NextRun
    \/ \E t \in Tasks :
        \/ ReadDone(t)
        \/ RespondOk(t)
        \/ RespondErr(t)
        \/ MkdirDone(t)
        \/ WriteBegin(t)
        \/ WriteEnd(t)

FetchSpec == FetchInit /\ [][FetchNext]_vars

\* ------------------------------------------------------------------ `rv ci` on many sections

\* The cache after earlier runs: it holds the gem of the first remote.
WideCache ==
    LET url == url_for_spec(WideLockfile[1].remote, WideLockfile[1].specs[1])
        made == create_dir_all(init(NoFs).fs, Parent(cache_path(url))).fs
    IN  With(made, cache_path(url), File(Payload(url)))

WideInit ==
    /\ fs = WideCache
    /\ pre = fs
    /\ last = NoOp
    /\ limit \in {1, MaxLimit}
    /\ run = MaxRuns - 1
    /\ clean = FALSE
    /\ dl = [FreshOf(WideLockfile) EXCEPT !.found = Found(WideLockfile, fs)]
    /\ handles = [h \in Handles |-> NoHandle]
    /\ ephemeral = FALSE
    /\ pure = NoCall
    /\ inst = NoInstall

WideSpec == WideInit /\ [][FetchNext]_vars

\* ------------------------------------------------------------------ `rv ci` on remotes that are no URLs

UrlInit ==
    /\ fs = init(NoFs).fs
    /\ pre = fs
    /\ last = NoOp
    /\ limit \in 1..MaxLimit
    /\ run = 1
    /\ clean = TRUE
    /\ dl = FreshOf(UrlLockfile)
    /\ handles = [h \in Handles |-> NoHandle]
    /\ ephemeral = FALSE
    /\ pure = NoCall
    /\ inst = NoInstall

UrlSpec == UrlInit /\ [][FetchNext]_vars

\* ------------------------------------------------------------------ ci_inner

\* The archives the server can hold for a gem: one with a gemspec and a file,
\* and one whose metadata.gz is no gzip stream.
Served ==
    {<<Metadata, Data(<<InnerEntry(Path(FALSE, <<"lib", "foo.rb">>), "file", <<102>>)>>)>>,
     <<OuterEntry("metadata.gz", NotGz(<<1>>))>>}

\* tar::Archive::new(contents).entries(): no bytes are an archive without
\* entries, and the bytes the server sent hold the archive it serves.
TarEntries(contents, archive) == IF contents = <<>> THEN <<>> ELSE archive

\* What install_gems meets: the archive served for each gem name and the
\* resolver; every archive when ruby prints the bundle path, the sound one
\* for every gem when it does not.
CiInputs ==
    {<<served, "prints">> : served \in [1..MaxSpecs -> Served]}
    \cup {<<[n \in 1..MaxSpecs |-> a], resolver>> :
              a \in {x \in Served : Len(x) = 2}, resolver \in Resolvers \ {"prints"}}

\* ci_inner that goes on to install_gems with what was collected when
\* download_gems has returned an error.
CiInstallAnyway ==
    /\ dl.result.state \in {"ok", "err"}
    /\ inst.op = "none"
    /\ \E input \in CiInputs :
          LET gems == Flatten(dl.collected)
              downloaded == [i \in 1..Len(gems) |->
                                Downloaded(TarEntries(gems[i].contents,
                                                      input[1][gems[i].spec.name]),
                                           gems[i].spec)]
              out == install_gems(inst.fs, downloaded, input[2])
          IN  inst' = [op |-> "install", ok |-> out.ok, error |-> out.error,
                       resolver |-> input[2], fs |-> out.fs, steps |-> out.steps]
    /\ UNCHANGED <<fs, pre, last, fetchVars, handleVars, pure>>

\* ci_inner once download_gems has returned Ok(gems): install_gems(gems),
\* which runs to its end before anything else of the process does.
CiInstall ==
    /\ dl.result.state = "ok"
    /\ inst.op = "none"
    /\ \E input \in CiInputs :
          LET gems == dl.result.downloaded
              downloaded == [i \in 1..Len(gems) |->
                                Downloaded(TarEntries(gems[i].contents,
                                                      input[1][gems[i].spec.name]),
                                           gems[i].spec)]
              out == install_gems(inst.fs, downloaded, input[2])
          IN  inst' = [op |-> "install", ok |-> out.ok, error |-> out.error,
                       resolver |-> input[2], fs |-> out.fs, steps |-> out.steps]
    /\ UNCHANGED <<fs, pre, last, fetchVars, handleVars, pure>>

\* ci_inner once download_gems has returned Err: `?` returns the error.
CiReturnErr ==
    /\ dl.result.state = "err"
    /\ inst.op = "none"
    /\ inst' = [NoInstall EXCEPT !.op = "returned", !.ok = FALSE,
                                 !.error = dl.errors[dl.result.error].kind]
    /\ UNCHANGED <<fs, pre, last, fetchVars, handleVars, pure>>

\* One run of `rv ci`.
CiNext ==
    \/ StartRun
    \/ CiInstall
    \/ CiReturnErr
    \/ \E t \in Tasks :
        \/ ReadDone(t)
        \/ RespondOk(t)
        \/ RespondErr(t)
        \/ MkdirDone(t)
        \/ WriteBegin(t)
        \/ WriteEnd(t)

CiSpec == FetchInit /\ [][CiNext]_vars

\* ------------------------------------------------------------------ what a removal should tally

\* The paths at or below p.
Under(f, p) == {q \in DOMAIN f : IsPrefix(p, q)}

DirsIn(f, paths) == Cardinality({q \in paths : f[q].kind = "dir"})

RECURSIVE BytesIn(_, _)
BytesIn(f, paths) ==
    IF paths = {}
    THEN 0
    ELSE LET q == CHOOSE x \in paths : TRUE
         IN  Len(f[q].data) + BytesIn(f, paths \ {q})

\* The tally of removing every path of paths from f.
Tally(f, paths) == Removal(DirsIn(f, paths), BytesIn(f, paths))

\* ------------------------------------------------------------------ C1

RecognizedNames == {"ruby-v0", "gem-v0"}

\* The children of the root that prune is to remove: directories whose name
\* is no bucket name, and files other than the marker.
Stale(f) ==
    {c \in ReadDir(f, Root) :
        /\ c[1] # Marker
        /\ f[c].kind = "file" \/ c[1] \notin RecognizedNames}

StaleTree(f) == UNION {Under(f, c) : c \in Stale(f)}

\* The root the claim speaks of: the marker name, when taken, is a file.
PruneCase ==
    /\ last.op = "prune"
    /\ last.ok
    /\ ~IsDir(pre, <<Marker>>)

PruneRemovesExactlyStale ==
    /\ DOMAIN fs = (DOMAIN pre) \ StaleTree(pre)
    /\ \A q \in DOMAIN fs : fs[q] = pre[q]

\* C1 as stated: a successful prune removes exactly the unrecognized
\* directories with their subtrees and the stray files, leaves the marker and
\* the recognized buckets with their contents as they were, and returns a
\* non-empty Removal whenever at least one object was removed.
C1_PruneOriginal ==
    PruneCase =>
        /\ PruneRemovesExactlyStale
        /\ (DOMAIN fs # DOMAIN pre => ~RemovalIsEmpty(last.removal))

\* C1 amended: a successful prune removes exactly the unrecognized
\* directories with their subtrees and the stray files, leaves everything else
\* as it was, and returns the number of directories and of bytes removed; that
\* Removal is non-empty whenever a directory or a file of at least one byte
\* was removed.
C1_PruneAmended ==
    PruneCase =>
        /\ PruneRemovesExactlyStale
        /\ last.removal = Tally(pre, StaleTree(pre))
        /\ (\E q \in StaleTree(pre) : pre[q].kind = "dir" \/ Len(pre[q].data) > 0)
               => ~RemovalIsEmpty(last.removal)

C1_Witness ==
    /\ PruneCase
    /\ Exists(pre, <<Marker>>) /\ Exists(fs, <<Marker>>)
    /\ IsDir(pre, <<"ruby-v0">>) /\ Exists(fs, <<"ruby-v0", "subdir", "file2.txt">>)
    /\ IsDir(pre, <<"gem-v0">>) /\ IsDir(fs, <<"gem-v0">>)
    /\ Exists(pre, <<"ruby-v-0", "subdir", "file2.txt">>) /\ ~Exists(fs, <<"ruby-v-0">>)
    /\ Exists(pre, <<"random.txt">>) /\ ~Exists(fs, <<"random.txt">>)
    /\ ~RemovalIsEmpty(last.removal)

\* ------------------------------------------------------------------ C2

\* C2: init on a root that is a directory or missing never fails; a marker
\* that is already there keeps its contents, a missing one is created
\* holding "*", nothing else changes, and a further init changes nothing.
C2_InitIdempotent ==
    (last.op = "init" /\ (pre = NoFs \/ IsDir(pre, Root))) =>
        /\ last.ok
        /\ IsDir(fs, Root)
        /\ IF Exists(pre, <<Marker>>)
           THEN fs[<<Marker>>] = pre[<<Marker>>]
           ELSE fs[<<Marker>>] = File(Star)
        /\ DOMAIN fs = (DOMAIN pre) \cup {Root, <<Marker>>}
        /\ \A q \in DOMAIN pre : fs[q] = pre[q]
        /\ init(fs).ok /\ init(fs).fs = fs

C2_Witness ==
    /\ last.op = "init"
    /\ last.ok
    /\ Exists(pre, <<Marker>>)
    /\ pre[<<Marker>>] = File(Fill(MaxBytes))
    /\ fs[<<Marker>>] = File(Fill(MaxBytes))

\* ------------------------------------------------------------------ C7, C8, C9

\* C7: rm_rf of a path that does not exist returns Ok with the empty
\* Removal and leaves the file system as it was.
C7_RmRfMissing ==
    (last.op = "rm_rf" /\ ~Exists(pre, last.path)) =>
        /\ last.ok
        /\ last.removal = Removal(0, 0)
        /\ fs = pre

C7_Witness ==
    /\ last.op = "rm_rf"
    /\ last.path = <<"nonexistent", "path">>
    /\ IsDir(pre, Root)
    /\ last.ok

\* C8: rm_rf of a directory returns the number of directories of its tree,
\* itself included, and the bytes of the files of the tree; afterwards
\* nothing of the tree exists and everything else is as it was.
C8_RmRfDirectory ==
    (last.op = "rm_rf" /\ IsDir(pre, last.path)) =>
        /\ last.ok
        /\ last.removal = Tally(pre, Under(pre, last.path))
        /\ Under(fs, last.path) = {}
        /\ fs = Without(pre, Under(pre, last.path))

C8_Witness ==
    /\ last.op = "rm_rf"
    /\ last.path # Root
    /\ IsDir(pre, last.path)
    /\ Exists(pre, last.path \o <<"subdir", "file2.txt">>)
    /\ last.removal = Removal(2, 1 + MaxBytes)
    /\ IsDir(fs, Root)

\* C9: rm_rf of a regular file of S bytes returns {0, S} and afterwards the
\* file does not exist, everything else being as it was.
C9_RmRfFile ==
    (last.op = "rm_rf" /\ Exists(pre, last.path) /\ pre[last.path].kind = "file") =>
        /\ last.ok
        /\ last.removal = Removal(0, Len(pre[last.path].data))
        /\ ~Exists(fs, last.path)
        /\ fs = Without(pre, {last.path})

C9_Witness ==
    /\ last.op = "rm_rf"
    /\ last.path = <<"random.txt">>
    /\ Exists(pre, last.path)
    /\ pre[last.path] = File(Fill(MaxBytes))
    /\ last.removal = Removal(0, MaxBytes)
    /\ ~Exists(fs, last.path)

\* ------------------------------------------------------------------ C10

\* C10: after a successful clear neither the root nor anything under it
\* exists, the marker and the buckets included, and the Removal returned
\* counts every directory and every byte that was there.
C10_ClearRemovesRoot ==
    (last.op = "clear" /\ last.ok) =>
        /\ fs = NoFs
        /\ last.removal = Tally(pre, DOMAIN pre)

C10_Witness ==
    /\ last.op = "clear"
    /\ last.ok
    /\ Exists(pre, <<Marker>>)
    /\ Exists(pre, <<"ruby-v0", "file1.txt">>)
    /\ Exists(pre, <<"gem-v0", "subdir">>)
    /\ last.removal.dirs >= 5
    /\ fs = NoFs

\* ------------------------------------------------------------------ the download, observed

SourceTasks(s) == {t \in Tasks : t[1] = s}

\* A future that has been started and has not completed.
InFlight(t) == dl.pc[t] \in {"read", "get", "mkdir", "write", "writing"}

\* A section whose collector has been handed the Err of one of its futures.
Failed(s) == \E t \in SourceTasks(s) : dl.pc[t] = "raised"

\* A section whose futures have been dropped: its own collector got an Err, or
\* the collector of download_gems did and dropped the section.
Aborted(s) == Failed(s) \/ dl.src[s] = "dropped"

\* The position of future t in the order of completion, 0 if it has not completed.
RECURSIVE IndexIn(_, _)
IndexIn(seq, x) ==
    IF seq = <<>> THEN 0
    ELSE IF seq[Len(seq)] = x THEN Len(seq)
    ELSE IndexIn(SubSeq(seq, 1, Len(seq) - 1), x)

\* The number of specs in the sections before s.
RECURSIVE Offset(_)
Offset(s) == IF s = 1 THEN 0 ELSE Offset(s - 1) + SpecCount(s - 1)

\* ------------------------------------------------------------------ C3

\* C3: when the first run started from an empty cache and every run so far
\* succeeded, a later run sends no request: every future it starts finds its
\* cache entry and reads it; the first run sent a request for every URL.
C3_SecondRunNoRequests ==
    /\ (run > 1 /\ clean) =>
          /\ \A u \in Urls : dl.requests[u] = 0
          /\ \A t \in Tasks :
                /\ dl.pc[t] \in {"queued", "read", "ok", "yielded"}
                /\ dl.pc[t] # "queued" => Exists(fs, cache_path(UrlOf(t)))
                /\ dl.pc[t] \in {"ok", "yielded"} => dl.got[t] = Payload(UrlOf(t))
    /\ (run = 1 /\ dl.result.state = "ok") => \A u \in Urls : dl.requests[u] >= 1

C3_Witness ==
    /\ run = 2
    /\ clean
    /\ dl.result.state = "ok"
    /\ Len(dl.result.downloaded) = Cardinality(Tasks)
    /\ \A u \in Urls : dl.requests[u] = 0

\* ------------------------------------------------------------------ C4

\* C4 as stated: in every state of a fetch the number of download futures in
\* flight is at most max_concurrent_requests.
C4_InFlightAtMostLimit ==
    Cardinality({t \in Tasks : InFlight(t)}) <= limit

\* ------------------------------------------------------------------ C5

\* C5: the items a section has collected are, in submission order, those of
\* its first specs; an output is handed on only when all earlier ones have
\* been; and the flattened result lists the sections in lockfile order with,
\* per section, the i-th item belonging to the i-th spec.
C5_ResultsInSubmissionOrder ==
    /\ \A s \in Sources :
          /\ Len(dl.items[s]) <= SpecCount(s)
          /\ \A i \in 1..Len(dl.items[s]) :
                dl.items[s][i] = Downloaded(dl.got[<<s, i>>], SpecOf(<<s, i>>))
          /\ \A t \in SourceTasks(s) :
                dl.pc[t] = "yielded" =>
                    /\ t[2] <= Len(dl.items[s])
                    /\ \A u \in SourceTasks(s) : u[2] < t[2] => dl.pc[u] = "yielded"
    /\ dl.result.state = "ok" =>
          /\ Len(dl.result.downloaded) = Cardinality(Tasks)
          /\ \A t \in Tasks :
                dl.result.downloaded[Offset(t[1]) + t[2]]
                    = Downloaded(dl.got[t], SpecOf(t))

\* The run succeeded although the second spec of the first section completed
\* before the first one, and the second section before both.
C5_Witness ==
    /\ dl.result.state = "ok"
    /\ run = 1
    /\ IndexIn(dl.order, <<2, 1>>) = 1
    /\ IndexIn(dl.order, <<1, 2>>) < IndexIn(dl.order, <<1, 1>>)
    /\ Len(dl.result.downloaded) = Cardinality(Tasks)

\* ------------------------------------------------------------------ C6

\* Once a section is aborted none of its futures runs: each is not started,
\* handed on, the one that failed, or dropped (work it had handed to the
\* blocking pool may still be carried out).
AbortedTasksStopped ==
    \A s \in Sources :
        Aborted(s) =>
            \A t \in SourceTasks(s) :
                dl.pc[t] \in {"queued", "yielded", "raised", "dropped",
                              "z_mkdir", "z_write", "z_writing"}

\* download_gems returns Ok only if no section failed, and an Err it returns
\* is the one a section's collector got from a failed future.
ErrorReachesCaller ==
    /\ dl.result.state = "ok" => \A s \in Sources : ~Aborted(s)
    /\ (\E s \in Sources : Aborted(s)) => \E s \in Sources : Failed(s)
    /\ dl.result.state = "err" =>
          /\ \E s \in Sources : dl.src[s] = "raised" /\ dl.result.error = dl.raised[s]
          /\ dl.pc[dl.result.error] = "raised"
          /\ \A t \in Tasks : ~InFlight(t)
          /\ \A s \in Sources : dl.src[s] \in {"queued", "yielded", "raised", "dropped"}

\* After a section is aborted no future of it is started and none goes on,
\* and no request is sent for it, for the rest of the run.
NoStartAfterAbort ==
    \A s \in Sources :
        (Aborted(s) /\ run' = run) =>
            /\ Aborted(s)'
            /\ dl'.started[s] = dl.started[s]
            /\ dl'.items[s] = dl.items[s]
            /\ \A t \in SourceTasks(s) :
                  \/ dl'.pc[t] = dl.pc[t]
                  \/ dl.pc[t] \in {"z_mkdir", "z_write", "z_writing"}
                        /\ dl'.pc[t] \in {"z_writing", "dropped"}

HandleOps == {"clone", "drop", "init"}

\* C11 as stated: while a Cache value of an ephemeral cache is alive, its
\* temporary directory exists.
C11_TempDirWhileAlive ==
    (ephemeral /\ Live(handles) # {}) => IsDir(fs, Root)

\* C11: copying, initializing and dropping Cache values never removes the root
\* while one of them is alive, and only Cache::clear removes it from under a
\* live value; dropping the last value of an ephemeral cache removes the
\* temporary directory with everything in it; copying and dropping values of a
\* persistent cache leaves the file system as it was.
C11_TempDirOwnedByHandles ==
    /\ (last.op \in HandleOps /\ Live(handles) # {} /\ IsDir(pre, Root))
          => IsDir(fs, Root)
    /\ (Live(handles) # {} /\ Exists(pre, Root) /\ ~Exists(fs, Root))
          => last.op = "clear"
    /\ (ephemeral /\ last.op \in HandleOps /\ Live(handles) = {}) => fs = NoFs
    /\ (~ephemeral /\ last.op \in {"clone", "drop"}) => fs = pre

\* The original value is gone and the temporary directory is still there for
\* the value that Cache::init returned.
C11_Witness ==
    /\ ephemeral
    /\ last.op = "drop"
    /\ \E h \in Handles : handles[h].state = "gone"
    /\ \E h \in Handles : handles[h].state = "live" /\ handles[h].root = "canonical"
    /\ IsDir(fs, Root)
    /\ Exists(fs, <<Marker>>)

InitSucceeded == last.op = "init" /\ last.ok

\* C12 as stated: after Cache::init succeeds the root is canonical and its
\* children are one marker file and recognized bucket directories only.
C12_RootHoldsOnlyMarkerAndBuckets ==
    InitSucceeded =>
        /\ \E h \in Live(handles) : handles[h].root = "canonical"
        /\ Exists(fs, <<Marker>>) /\ fs[<<Marker>>].kind = "file"
        /\ \A c \in ReadDir(fs, Root) :
              \/ c = <<Marker>>
              \/ c[1] \in RecognizedNames /\ fs[c].kind = "dir"

\* C12: after Cache::init succeeds the value holds the canonical root, the root
\* is a directory with an entry named .gitignore, which is a file holding "*"
\* when init made it, and the root's other children and everything below them
\* are what they were before: on a root that was missing or empty the marker
\* file is the only child, and nothing that was there is removed.
C12_InitAddsOnlyMarker ==
    InitSucceeded =>
        /\ \E h \in Live(handles) : handles[h].root = "canonical"
        /\ IsDir(fs, Root)
        /\ Exists(fs, <<Marker>>)
        /\ ~Exists(pre, <<Marker>>) => fs[<<Marker>>] = File(Star)
        /\ ReadDir(fs, Root) = ReadDir(pre, Root) \cup {<<Marker>>}
        /\ \A q \in DOMAIN pre : Exists(fs, q) /\ fs[q] = pre[q]
        /\ DOMAIN fs = DOMAIN pre \cup {Root, <<Marker>>}

\* Cache::init has succeeded on a root that held a stray file and a directory
\* that is no bucket, and both are still there.
C12_Witness ==
    /\ InitSucceeded
    /\ Exists(pre, <<"random.txt">>) /\ Exists(fs, <<"random.txt">>)
    /\ Exists(pre, <<"ruby-v-0">>) /\ Exists(fs, <<"ruby-v-0">>)
    /\ ~Exists(pre, <<Marker>>) /\ fs[<<Marker>>] = File(Star)

\* ------------------------------------------------------------------ claims on the reporter

CallsOf(kind) == {i \in 1..Len(last.calls) : last.calls[i] = kind}

\* C15: a sweep with a reporter calls on_clean once for each file and each
\* directory it removes and on_complete once for the whole call, after the
\* last on_clean.
C15_ReporterCalls ==
    last.op = "clear" =>
        /\ Cardinality(CallsOf("on_clean")) = Cardinality(DOMAIN pre \ DOMAIN fs)
        /\ CallsOf("on_complete") = {Len(last.calls)}
        /\ Len(last.calls) = Cardinality(DOMAIN pre \ DOMAIN fs) + 1

\* A sweep of a root that held files and directories at several depths.
C15_Witness ==
    /\ last.op = "clear"
    /\ \E q \in DOMAIN pre : Len(q) = 3 /\ pre[q].kind = "file"
    /\ \E q \in DOMAIN pre : Len(q) = 1 /\ pre[q].kind = "file"
    /\ Cardinality(CallsOf("on_clean")) >= 5
    /\ fs = NoFs

\* ------------------------------------------------------------------ claims on values

\* C16: addition of Removals adds both fields, is associative and commutative,
\* has {0,0} as identity, and a += b leaves in a what a + b is.
C16_RemovalAddition ==
    pure.op = "add" =>
        /\ pure.ab = Removal(pure.a.dirs + pure.b.dirs,
                             pure.a.bytes + pure.b.bytes)
        /\ pure.ab_c = pure.a_bc
        /\ pure.ab = pure.ba
        /\ pure.a_0 = pure.a
        /\ pure.assigned = pure.ab

\* Three Removals, different in both fields, have been added.
C16_Witness ==
    /\ pure.op = "add"
    /\ pure.a.dirs # pure.b.dirs /\ pure.a.bytes # pure.b.bytes
    /\ pure.c.dirs > 0 /\ pure.c.bytes > 0
    /\ pure.ab_c.bytes > pure.ab.bytes
    /\ pure.ab # pure.a /\ pure.ab # pure.b

\* root/<bucket-name>/dir: the components one after the other.
Slash(p, q) == Path(p.abs, p.parts \o q.parts)

BucketName(b) == Path(FALSE, <<to_str(b)>>)

SingleName(p) == ~p.abs /\ Len(p.parts) = 1

\* What C17 says of one call of the addressing functions.
Addressing ==
    LET dir == Slash(Slash(pure.root, BucketName(pure.bucket)), pure.dir)
    IN  /\ pure.entry = Slash(dir, pure.file)
        /\ pure.shard = dir
        /\ pure.shard_entry = pure.entry
        /\ ~pure.panics
        /\ pure.entry_shard = pure.shard
        /\ pure.sibling = Slash(dir, pure.other)

\* C17 as stated: for all inputs the entry is root/<bucket-name>/dir/file, the
\* shard is root/<bucket-name>/dir, the shard's entry is the entry, the entry's
\* shard is the shard and with_file gives the entry of that name in the shard.
C17_AddressingAllInputs == pure.op = "entry" => Addressing

\* C17: for every input the shard's entry is the cache's entry; when dir is
\* relative and the file names are single components, the entry is
\* root/<bucket-name>/dir/file, the shard is root/<bucket-name>/dir, the
\* entry's shard is the shard and with_file gives the entry of that name in
\* the same shard.
C17_AddressingOfNames ==
    pure.op = "entry" =>
        /\ pure.shard_entry = pure.entry
        /\ (~pure.dir.abs /\ SingleName(pure.file) /\ SingleName(pure.other))
              => Addressing

\* An entry two directories below the bucket, and its sibling.
C17_Witness ==
    /\ pure.op = "entry"
    /\ pure.dir = Path(FALSE, <<"a", "b">>)
    /\ pure.file = Path(FALSE, <<"x.gem">>)
    /\ pure.other = Path(FALSE, <<"y.gem">>)
    /\ pure.entry = Path(TRUE, <<"cache", "gem-v0", "a", "b", "x.gem">>)
    /\ pure.sibling = Path(TRUE, <<"cache", "gem-v0", "a", "b", "y.gem">>)

\* C18: the text of a Removal is decided by which of its fields are not zero.
C18_RemovalRendering ==
    pure.op = "display" =>
        LET D == pure.r.dirs
            B == pure.r.bytes
        IN  /\ (D = 0 /\ B = 0) => pure.text = "No cache entries removed"
            /\ (D = 0 /\ B > 0) => pure.text = "Removed " \o ToString(B) \o " bytes"
            /\ (D > 0 /\ B = 0)
                  => pure.text = "Removed " \o ToString(D) \o " directories"
            /\ (D > 0 /\ B > 0)
                  => pure.text = "Removed " \o ToString(D) \o " directories ("
                                     \o ToString(B) \o " bytes)"

\* The text of a Removal of directories without bytes.
C18_Witness ==
    /\ pure.op = "display"
    /\ pure.r = Removal(MaxBytes, 0)
    /\ pure.text = "Removed " \o ToString(MaxBytes) \o " directories"

\* ------------------------------------------------------------------ claims on the installer

\* The paths an unpack made or changed.
Touched(step) ==
    {q \in DOMAIN step.after : ~Exists(step.before, q) \/ step.before[q] # step.after[q]}

SpecificationsDir == Join(BundlePath, "specifications")

DataDir(step) == Join(Join(BundlePath, "gems"), nameversion(step.spec))

\* C13: whatever the archive, every file and directory unpack_tarball makes
\* or changes is <install-root>/specifications, <install-root>/gems, or lies
\* inside <install-root>/specifications or <install-root>/gems/<name>-<version>.
C13_WritesStayInside ==
    \A i \in 1..Len(inst.steps) :
        \A q \in Touched(inst.steps[i]) :
            \/ IsPrefix(SpecificationsDir, q)
            \/ IsPrefix(q, DataDir(inst.steps[i]))
            \/ IsPrefix(DataDir(inst.steps[i]), q)

HasEntry(step, name) ==
    \E k \in 1..Len(step.contents) : step.contents[k].name = name

\* The entries of the data.tar.gz of the archive.
InnerOf(step) ==
    LET k == CHOOSE k \in 1..Len(step.contents) : step.contents[k].name = "data.tar.gz"
    IN  GzDecoder(step.contents[k].body).out

FilesOf(f) == {q \in DOMAIN f : f[q].kind = "file"}

\* C14: a successful unpack of an archive with metadata.gz and data.tar.gz
\* leaves the decompressed metadata in specifications/<name>-<version>.gemspec
\* and every file entry p of the data in gems/<name>-<version>/<p> with its
\* contents, and makes no other file.
C14_UnpackProducesExactly ==
    \A i \in 1..Len(inst.steps) :
        LET step == inst.steps[i]
            gemspec == Join(SpecificationsDir, nameversion(step.spec) \o ".gemspec")
        IN  (step.ok /\ HasEntry(step, "metadata.gz") /\ HasEntry(step, "data.tar.gz"))
            => /\ Exists(step.after, gemspec)
               /\ step.after[gemspec] = File(<<109>>)
               /\ \A k \in 1..Len(InnerOf(step)) :
                     LET e == InnerOf(step)[k]
                         at == DataDir(step) \o e.path.parts
                     IN  /\ Exists(step.after, at)
                         /\ e.kind = "file" => step.after[at] = File(e.data)
               /\ FilesOf(step.after) \ FilesOf(step.before)
                     \subseteq {gemspec} \cup
                               {DataDir(step) \o InnerOf(step)[k].path.parts :
                                    k \in 1..Len(InnerOf(step))}

\* ------------------------------------------------------------------ claims on admission

Admitting(s) == dl.src[s] = "running" /\ dl.started[s] < SpecCount(s)

RunningIn(s) == {t \in SourceTasks(s) : InFlight(t)}

\* C19 as stated: while a section has futures left to start and none of its
\* futures has failed, the number of its futures in flight is
\* max_concurrent_requests.
C19_RunningReturnsToLimit ==
    \A s \in Sources :
        (Admitting(s) /\ \A t \in SourceTasks(s) : dl.pc[t] # "err")
            => Cardinality(RunningIn(s)) = limit

\* C19: the window of a section slides over the submission order: while the
\* section has futures left to start, exactly max_concurrent_requests futures
\* are started and not handed on, the earliest of them is in flight, and the
\* others are in flight or have completed and wait for it; the window never
\* holds more than max_concurrent_requests.
C19_WindowSlidesInOrder ==
    \A s \in Sources :
        dl.src[s] = "running" =>
            /\ dl.started[s] - dl.yielded[s] <= limit
            /\ Admitting(s) => dl.started[s] - dl.yielded[s] = limit
            /\ dl.yielded[s] < dl.started[s] => InFlight(<<s, dl.yielded[s] + 1>>)
            /\ \A t \in InQueue(dl, s) : InFlight(t) \/ dl.pc[t] \in {"ok", "err"}
            /\ \A t \in SourceTasks(s) :
                  /\ t[2] <= dl.yielded[s] => dl.pc[t] = "yielded"
                  /\ t[2] > dl.started[s] => dl.pc[t] = "queued"

\* With a limit of 2 the third future of the first section is in flight
\* beside the second one: it was started when the first was handed on.
C19_Witness ==
    /\ limit = 2
    /\ dl.src[1] = "running"
    /\ dl.pc[<<1, 1>>] = "yielded"
    /\ InFlight(<<1, 2>>)
    /\ InFlight(<<1, 3>>)

\* ------------------------------------------------------------------ claims on the sections

SourcesRunning == {s \in Sources : dl.src[s] = "running"}

\* C20: whatever max_concurrent_requests is, at most OuterLimit sections are
\* being fetched at a time, and while sections are left to start exactly
\* OuterLimit are started and not handed on; max_concurrent_requests bounds
\* the futures started and not handed on inside each section.
C20_OuterCeiling ==
    /\ Cardinality(SourcesRunning) <= OuterLimit
    /\ dl.ostarted - dl.oyielded <= OuterLimit
    /\ (Running /\ dl.ostarted < Len(dl.lockfile))
          => dl.ostarted - dl.oyielded = OuterLimit
    /\ \A s \in Sources : dl.started[s] - dl.yielded[s] <= limit

\* With a limit of 1, OuterLimit sections each have a download in flight and
\* one more section waits.
C20_Witness ==
    /\ limit = 1
    /\ Len(dl.lockfile) > OuterLimit
    /\ Cardinality(SourcesRunning) = OuterLimit
    /\ \A s \in SourcesRunning : RunningIn(s) # {}
    /\ dl.src[OuterLimit + 1] = "queued"

\* ------------------------------------------------------------------ claims on the cache entries of a download

EntryOf(t) == cache_path(UrlOf(t))

\* The entry of URL u holds the whole payload.
Whole(u) == Exists(fs, cache_path(u)) /\ fs[cache_path(u)] = File(Payload(u))

\* A write handed to the blocking pool by a future for URL u is under way.
BeingWritten(u) == \E z \in Tasks : UrlOf(z) = u /\ dl.pc[z] \in {"writing", "z_writing"}

\* The entries a run found when it started, after a run that failed.
Kept == IF run > 1 /\ ~clean THEN dl.found ELSE {}

\* The futures for an entry kept from a failed run find it, read the payload
\* from it and send no request.
KeptIsHit ==
    \A u \in Kept :
        /\ Whole(u)
        /\ dl.requests[u] = 0
        /\ \A t \in Tasks : UrlOf(t) = u =>
              /\ dl.sent[t] = 0
              /\ dl.pc[t] \in {"queued", "read", "ok", "yielded", "dropped"}
              /\ dl.pc[t] \in {"ok", "yielded"} => dl.got[t] = Payload(u)

\* Nothing is removed from the cache, and a run starts when the writes of the
\* run before have ended: an entry that a future of that run wrote is whole
\* when the next run starts, and is among those it finds.
NothingRemoved ==
    [][/\ DOMAIN fs \subseteq DOMAIN fs'
       /\ (dl'.result.state = "idle" /\ dl.result.state # "idle") =>
              \A t \in dl.wrote :
                  /\ fs'[EntryOf(t)] = File(Payload(UrlOf(t)))
                  /\ UrlOf(t) \in dl'.found]_vars

\* C21 as stated: once the batch has failed, every entry written by a future
\* that had returned Ok holds the bytes that future wrote, and in a later run
\* each such entry is a hit that returns those bytes without a request.
C21_EntriesUnchanged ==
    /\ dl.result.state = "err" => \A t \in dl.wrote : Whole(UrlOf(t))
    /\ KeptIsHit

\* C21: a failed batch rolls nothing back: every entry written by a future
\* that had returned Ok still exists, and it holds the bytes written unless a
\* write for the same URL that a dropped future had handed to the blocking
\* pool is under way; it is whole when the next run starts, and in that run
\* every entry found is a hit that returns the gem's bytes without a request.
C21_NoRollback ==
    /\ [](dl.result.state = "err" =>
            \A t \in dl.wrote :
                /\ Exists(fs, EntryOf(t))
                /\ Whole(UrlOf(t)) \/ BeingWritten(UrlOf(t)))
    /\ NothingRemoved
    /\ []KeptIsHit

\* The first run failed after the first future of the first section, the only
\* one for its gem, had written its entry, and in the second run that
\* future has returned the payload from the cache without a request.
C21_Witness ==
    /\ run = 2
    /\ ~clean
    /\ UrlOf(<<1, 1>>) \in Kept
    /\ dl.pc[<<1, 1>>] = "yielded"
    /\ dl.sent[<<1, 1>>] = 0
    /\ dl.got[<<1, 1>>] = Payload(UrlOf(<<1, 1>>))

\* ------------------------------------------------------------------ C22

\* The step in which the write of future t ends and the future returns Ok.
MissCompletes(t) == dl.pc[t] = "writing" /\ dl'.pc[t] \notin {"writing", "z_writing"}

\* The number of requests the futures in ts have sent.
RECURSIVE SentBy(_)
SentBy(ts) ==
    IF ts = {} THEN 0
    ELSE LET t == CHOOSE x \in ts : TRUE IN dl.sent[t] + SentBy(ts \ {t})

\* C22: a download_gem future that misses and returns Ok has sent exactly one
\* request for its URL (no future ever sends more than one, and the requests
\* for a URL are those of its futures), and when its write ends the ancestor
\* directories of its cache entry <root>/gem-v0/gems/<digest(url)>.gem exist
\* and the entry holds exactly the payload the future returns.
C22_MissWritesPayload ==
    /\ [](\A t \in Tasks : dl.sent[t] <= 1)
    /\ [](\A u \in Urls : dl.requests[u] = SentBy({t \in Tasks : UrlOf(t) = u}))
    /\ [][\A t \in Tasks : MissCompletes(t) =>
             /\ dl'.sent[t] = 1
             /\ dl'.got[t] = Payload(UrlOf(t))
             /\ IsDir(fs', bucket("Gem"))
             /\ IsDir(fs', Join(bucket("Gem"), "gems"))
             /\ EntryOf(t) = Join(Join(bucket("Gem"), "gems"),
                                  ToString(cache_digest(UrlOf(t))) \o ".gem")
             /\ Exists(fs', EntryOf(t))
             /\ fs'[EntryOf(t)] = File(dl'.got[t])]_vars

\* From an empty cache the first future of the first section has missed, and
\* has written and returned the payload after one request.
C22_Witness ==
    /\ run = 1
    /\ <<1, 1>> \in dl.wrote
    /\ dl.sent[<<1, 1>>] = 1
    /\ dl.pc[<<1, 1>>] = "yielded"
    /\ fs[EntryOf(<<1, 1>>)] = File(dl.got[<<1, 1>>])
    /\ dl.got[<<1, 1>>] = Payload(UrlOf(<<1, 1>>))

\* ------------------------------------------------------------------ C23

\* The step in which future t is started: download_gem tests its cache path.
Starts(t) == dl.pc[t] = "queued" /\ dl'.pc[t] # "queued"

\* The step in which the write of future t, dropped or not, begins or ends.
Writes(t) ==
    \/ dl.pc[t] \in {"write", "z_write"} /\ dl'.pc[t] \in {"writing", "z_writing"}
    \/ dl.pc[t] \in {"writing", "z_writing"} /\ dl'.pc[t] \notin {"writing", "z_writing"}

\* Futures for one URL: they share the cache entry.
SameKey(t, u) == t # u /\ UrlOf(t) = UrlOf(u)

\* C23: nothing but the existence of the entry decides whether a future sends
\* a request: a future started while its cache path does not exist sends one,
\* also when another future for the same URL has sent one and not written
\* yet, and a future started when the path exists (another future's write
\* has completed, or begun) sends none; futures for the same URL that both
\* missed both write the one path of that URL, and a write changes that
\* path only.
C23_NoLockOnEntry ==
    /\ [][\A t \in Tasks : Starts(t) =>
             IF Exists(fs', EntryOf(t))
             THEN dl'.sent[t] = 0 /\ dl'.requests[UrlOf(t)] = dl.requests[UrlOf(t)]
             ELSE dl'.sent[t] = 1 /\ dl'.requests[UrlOf(t)] > dl.requests[UrlOf(t)]]_vars
    /\ [][\A t \in Tasks : Writes(t) =>
             /\ Exists(fs', EntryOf(t))
             /\ \A q \in (DOMAIN fs \cup DOMAIN fs') \ {EntryOf(t)} :
                   q \in DOMAIN fs /\ q \in DOMAIN fs' /\ fs'[q] = fs[q]]_vars
    /\ [](\A t, u \in Tasks : SameKey(t, u) => EntryOf(t) = EntryOf(u))

\* The two futures for the gem listed in both sections were started before
\* either had written: the URL got two requests, and both futures have
\* written the entry and returned Ok.
C23_Witness ==
    /\ SameKey(<<1, 2>>, <<2, 1>>)
    /\ dl.requests[UrlOf(<<1, 2>>)] = 2
    /\ dl.sent[<<1, 2>>] = 1
    /\ dl.sent[<<2, 1>>] = 1
    /\ {<<1, 2>>, <<2, 1>>} \subseteq dl.wrote

\* ------------------------------------------------------------------ C24

\* The step in which the read of future t ends and the future returns.
ReadCompletes(t) == dl.pc[t] = "read" /\ dl'.pc[t] \notin {"read", "dropped"}

\* A future that found its entry and returned less than the gem's bytes.
PartialHit(t) ==
    /\ dl.sent[t] = 0
    /\ dl.pc[t] = "yielded"
    /\ dl.got[t] # Payload(UrlOf(t))

\* C24: a future that finds its cache path returns Ok with whatever the file
\* holds when the read is done, a file that another future's write has
\* truncated and not filled yet included, and that content is handed on as
\* the gem's payload as it is.
C24_ReadReturnsWhatIsThere ==
    /\ [][\A t \in Tasks : ReadCompletes(t) =>
             /\ dl'.pc[t] \in {"ok", "yielded"}
             /\ dl'.got[t] = fs[EntryOf(t)].data]_vars
    /\ [](\A t \in Tasks : dl.pc[t] = "yielded" =>
             dl.items[t[1]][t[2]] = Downloaded(dl.got[t], SpecOf(t)))

\* Under a limit of one the second future of the first section was started
\* while the future of the second section was writing the same entry: it
\* read the empty file, and the download has returned Ok with that content
\* for the gem.
C24_Witness ==
    /\ PartialHit(<<1, 2>>)
    /\ <<2, 1>> \in dl.wrote
    /\ dl.result.state = "ok"
    /\ dl.result.downloaded[2] = Downloaded(<<>>, SpecOf(<<1, 2>>))
    /\ Whole(UrlOf(<<1, 2>>))

\* ------------------------------------------------------------------ C25

\* The sum of the Removals of removing each path of paths from f.
RECURSIVE SumOfRemovals(_, _)
SumOfRemovals(f, paths) ==
    IF paths = {}
    THEN RemovalDefault
    ELSE LET q == CHOOSE x \in paths : TRUE
         IN  RemovalAdd(RemovalRmRf(f, q).removal, SumOfRemovals(f, paths \ {q}))

\* The file system when the first k removals of order have been done.
After(f, order, k) == Without(f, {order[i] : i \in 1..k})

\* order removes every path of the tree at p once, each after everything
\* below it, and each directory when nothing is left in it.
PostOrder(f, p, order) ==
    /\ Len(order) = Cardinality(Under(f, p))
    /\ {order[i] : i \in 1..Len(order)} = Under(f, p)
    /\ \A i, j \in 1..Len(order) :
          (i # j /\ IsPrefix(order[j], order[i])) => i < j
    /\ \A j \in 1..Len(order) :
          IsDir(f, order[j]) => ReadDir(After(f, order, j - 1), order[j]) = {}
    /\ order[Len(order)] = p

\* C25: rm_rf of a directory removes every path of its tree after all the
\* paths below it, so each directory when it is empty and the directory
\* itself last, and returns the sum of the Removals of its children plus
\* one directory.
C25_PostOrderRemoval ==
    (last.op = "rm_rf" /\ IsDir(pre, last.path)) =>
        LET w == RemovalRmRf(pre, last.path)
        IN  /\ w.fs = fs
            /\ w.removal = last.removal
            /\ PostOrder(pre, last.path, w.order)
            /\ last.removal = RemovalAdd(SumOfRemovals(pre, ReadDir(pre, last.path)),
                                         Removal(1, 0))

\* A directory holding a directory that is not empty has been removed.
C25_Witness ==
    /\ last.op = "rm_rf"
    /\ IsDir(pre, last.path)
    /\ \E child \in ReadDir(pre, last.path) :
          IsDir(pre, child) /\ ReadDir(pre, child) # {}
    /\ ~Exists(fs, last.path)
    /\ last.removal.dirs >= 2

\* ------------------------------------------------------------------ C29

\* A prune that an I/O error has ended.
PruneFailed == last.op = "prune" /\ ~last.ok

\* The tree at p is as it was before the operation.
Intact(p) == \A q \in Under(pre, p) : Exists(fs, q) /\ fs[q] = pre[q]

\* C29: a prune that an I/O error ends returns the error and no Removal;
\* when the root cannot be listed nothing changes; otherwise the stale
\* entries the loop got through are gone with their trees, the other entries
\* it got through are as they were, the entry at which the error happened
\* has lost what rm_rf had removed of it by then and nothing else, the entries
\* the loop had not come to are as they were, and nothing is created.
C29_PruneAborts ==
    PruneFailed =>
        /\ last.removal = RemovalDefault
        /\ DOMAIN fs \subseteq DOMAIN pre
        /\ ~IsDir(pre, Root) => fs = pre
        /\ IsDir(pre, Root) =>
              /\ last.visited # ReadDir(pre, Root)
              /\ last.failed.entry \in ReadDir(pre, Root) \ last.visited
              /\ \A e \in last.visited :
                    IF e \in Stale(pre) THEN ~Exists(fs, e) ELSE Intact(e)
              /\ \A e \in ReadDir(pre, Root) \ (last.visited \cup {last.failed.entry}) :
                    Intact(e)
              /\ Exists(fs, last.failed.entry)
              /\ Cardinality(Under(pre, last.failed.entry))
                    - Cardinality(Under(fs, last.failed.entry)) = last.failed.done
              /\ \A q \in Under(fs, last.failed.entry) : fs[q] = pre[q]

\* rm_rf failed inside a stale directory after removing something of it,
\* when one stale entry had been removed and another was still to come.
C29_Witness ==
    /\ PruneFailed
    /\ last.failed.done > 0
    /\ \E e \in last.visited : e \in Stale(pre) /\ ~Exists(fs, e)
    /\ \E e \in Stale(pre) \ (last.visited \cup {last.failed.entry}) : Intact(e)

\* ------------------------------------------------------------------ C26

\* The resolver could not report a directory.
NoDirectoryReported == inst.op = "install" /\ inst.resolver \in {"absent", "fails", "silent"}

\* C26: whenever the resolver cannot report a directory (ruby cannot be
\* started, fails, or prints nothing), install_gems fails with
\* Error::BadBundlePath, not with an I/O error, and nothing is unpacked.
C26_MissingInstallPathFails ==
    NoDirectoryReported =>
        /\ ~inst.ok
        /\ inst.error = "BadBundlePath"
        /\ inst.steps = <<>>
        /\ inst.fs = BundleFs

\* ------------------------------------------------------------------ C28

\* The entries of a gem's archive that unpack_tarball has an arm for that
\* writes.
Written(contents) == SelectSeq(contents, LAMBDA e : e.name \in {"metadata.gz", "data.tar.gz"})

\* The names of the entries that match no arm.
Unknown(contents) ==
    LET others == SelectSeq(contents, LAMBDA e : e.name \notin {"metadata.gz", "data.tar.gz"} \cup Ignored)
    IN  [i \in 1..Len(others) |-> others[i].name]

\* An entry named neither metadata.gz nor data.tar.gz.
Other(entry) == entry.name \notin {"metadata.gz", "data.tar.gz"}

\* C28: an entry of the gem's archive that is named neither metadata.gz nor
\* data.tar.gz never fails and changes no file: unpacking an archive does to
\* the file system, and returns, what unpacking it without those entries
\* does; of those entries the ones named checksums.yaml.gz, data.tar.gz.sig,
\* metadata.gz.sig or checksums.yaml.gz.sig leave no trace whatever they hold,
\* and each of the others is logged by name, in order, as far as the loop
\* gets.
C28_OtherEntriesSkipped ==
    \A i \in 1..Len(inst.steps) :
        LET step == inst.steps[i]
            kept == unpack_tarball(step.before, Downloaded(Written(step.contents), step.spec),
                                   BundlePath)
        IN  /\ step.after = kept.fs
            /\ step.ok = kept.ok
            /\ step.ok => step.log = Unknown(step.contents)
            /\ \E n \in 0..Len(step.contents) :
                  step.log = Unknown(SubSeq(step.contents, 1, n))
            /\ \A n \in 1..Len(step.contents) :
                  LET upto == unpack_tarball(step.before,
                                  Downloaded(SubSeq(step.contents, 1, n - 1), step.spec),
                                  BundlePath)
                      with == unpack_tarball(step.before,
                                  Downloaded(SubSeq(step.contents, 1, n), step.spec),
                                  BundlePath)
                  IN  (Other(step.contents[n]) /\ upto.ok) =>
                          with.ok /\ with.fs = upto.fs

\* An archive that begins with an entry of an unknown name has been unpacked:
\* the name was logged and the gemspec and the file of the data archive that
\* come after it were written.
C28_Witness ==
    \E i \in 1..Len(inst.steps) :
        LET step == inst.steps[i]
        IN  /\ step.ok
            /\ Len(step.contents) = 3
            /\ step.contents[1].name = "README"
            /\ step.log = <<"README">>
            /\ Exists(step.after, Join(SpecificationsDir, nameversion(step.spec) \o ".gemspec"))
            /\ Exists(step.after, Join(Join(DataDir(step), "lib"), "foo.rb"))
            /\ \E j \in 1..Len(inst.steps) :
                  /\ inst.steps[j].ok
                  /\ \E n \in 1..Len(inst.steps[j].contents) :
                        inst.steps[j].contents[n].name = "metadata.gz.sig"

\* ------------------------------------------------------------------ C27

RemoteOfTask(t) == dl.lockfile[t[1]].remote

\* A future whose url_for_spec fails, once it has been started.
MalformedUrl(t) ==
    /\ dl.pc[t] # "queued"
    /\ UrlParse(RemoteOfTask(t)) # "ok" \/ UrlJoin(RemoteOfTask(t), SpecOf(t)) # "ok"

\* C27: a future whose remote does not parse, or whose remote joined with
\* gems/<name>-<version>.gem does not parse, returns an Err that holds the
\* offending string, and sends no request and writes no cache entry.
C27_MalformedUrlCarriesString ==
    \A t \in Tasks : MalformedUrl(t) =>
        /\ dl.errors[t].kind \in {"BadRemote", "UrlError"}
        /\ "remote" \in DOMAIN dl.errors[t]
        /\ dl.errors[t].remote = RemoteOfTask(t)
        /\ dl.sent[t] = 0
        /\ dl.requests[UrlOf(t)] = 0
        /\ ~Exists(fs, EntryOf(t))

\* ------------------------------------------------------------------ C30

\* A CacheEntry has been made by one of the constructors.
EntryMade == pure.op \in {"entry", "from_path"}

\* The path has a parent, and the parent is not the root directory or the
\* empty path.
HasProperParent(p) == HasParent(p) /\ PathParent(p).parts # <<>>

\* C30: every CacheEntry made by Cache::entry, CacheShard::entry,
\* CacheEntry::new, from_path or with_file has a parent that is not the root,
\* and dir(), shard() and with_file() do not panic on it.
C30_EntryHasParent ==
    EntryMade =>
        /\ HasProperParent(pure.entry)
        /\ ~pure.panics

\* ------------------------------------------------------------------ C32

\* The last operation was a prune that came right after a prune that had
\* returned Ok.
SecondPrune == last.op = "prune" /\ last.prior # "other"

\* C32: a prune that runs right after a prune that returned Ok removes
\* nothing and leaves the root as it was, and when it returns Ok it returns
\* the empty Removal {0,0}.
C32_PruneIdempotent ==
    SecondPrune =>
        /\ fs = pre
        /\ last.ok => last.removal = RemovalDefault

\* A prune has returned Ok after a prune that had removed something and
\* returned Ok.
C32_Witness ==
    /\ SecondPrune
    /\ last.prior = "pruned"
    /\ last.ok
    /\ ReadDir(fs, Root) # {}

\* ------------------------------------------------------------------ C31

\* The gems of the lockfile in its order: section by section, each section's
\* specs in turn.
ManifestOrder == Flatten([s \in Sources |-> dl.lockfile[s].specs])

\* install_gems has been called.
InstallStarted == inst.op = "install"

\* Every step but the last succeeded, step i unpacked the i-th gem of the
\* lockfile, and each step started from the file system the one before left.
InManifestOrder ==
    /\ Len(inst.steps) <= Len(ManifestOrder)
    /\ \A i \in 1..Len(inst.steps) :
          /\ inst.steps[i].spec = ManifestOrder[i]
          /\ inst.steps[i].before = IF i = 1 THEN BundleFs ELSE inst.steps[i - 1].after
          /\ i < Len(inst.steps) => inst.steps[i].ok
    /\ inst.fs = IF inst.steps = <<>> THEN BundleFs
                 ELSE inst.steps[Len(inst.steps)].after

\* C31: install_gems is called only when download_gems has returned Ok, with
\* every fetch task of every section completed; when download_gems returns an
\* error ci_inner returns it, the bundle path is not asked for and nothing is
\* written below it; an installation unpacks the downloads one after the
\* other in the order of the lockfile, each once, and when it returns Ok it
\* has unpacked every one of them.
C31_InstallAfterFetch ==
    /\ InstallStarted =>
          /\ dl.result.state = "ok"
          /\ \A t \in Tasks : dl.pc[t] = "yielded"
          /\ InManifestOrder
          /\ inst.ok => Len(inst.steps) = Len(ManifestOrder)
    /\ dl.result.state = "err" =>
          /\ ~InstallStarted
          /\ inst.steps = <<>>
          /\ inst.fs = BundleFs
          /\ inst.op = "returned" => inst.error = dl.errors[dl.result.error].kind

\* Every gem of the lockfile has been unpacked, the one listed in two sections
\* twice, and the installation returned Ok.
C31_Witness ==
    /\ InstallStarted
    /\ inst.ok
    /\ inst.resolver = "prints"
    /\ Len(inst.steps) = Len(ManifestOrder)
    /\ Len(inst.steps) > MaxSpecs
    /\ inst.fs # BundleFs

====
